---- MODULE Spec2Model ----
(***************************************************************************)
(* A model of the Google Docs MCP server: the colour codec, the style      *)
(* request builders, the text locator loop of formatMatchingText and the   *)
(* tool handlers that compose them with the remote batch-update call.      *)
(*                                                                         *)
(* Conventions.                                                            *)
(*  - A JavaScript string is a sequence of one-character strings:          *)
(*    "#F00" is <<"#","F","0","0">>.                                       *)
(*  - A JavaScript value is a pair <<tag, payload>>: JStr(s), JNum(n),     *)
(*    JBool(b), JNull, Undefined.  An argument object is a record whose    *)
(*    field is Undefined when the key is absent (JSON carries no           *)
(*    undefined, so "absent" and "undefined" coincide for tool arguments). *)
(*  - A colour channel k stands for the fraction k/255.                    *)
(*  - Spec follows one tool invocation at a time from its receipt to its   *)
(*    response; SpecConcurrent runs handlers side by side, as the async    *)
(*    handler allows, with what they share: the client handles and the     *)
(*    remote document.                                                     *)
(***************************************************************************)
EXTENDS Integers, Sequences, FiniteSets, TLC

VARIABLES
    hexIn, hexOut,                 \* hexToRgbColor: argument, result
    bIntent, bOut,                 \* buildTextStyleRequests: textStyle, result
    locIn, locOut,                 \* locator loop: inputs, outcome
    oObj, oOut, oCalls,            \* builder called again and again: the intent
                                   \* object, the last result, calls so far
    environment,                   \* what the process is started in: --setup,
                                   \* a saved token, a terminal
    serverState,                   \* "starting" | "authorizing" | "connected"
                                   \* | "exited" (code 1)
                                   \* | "setup done"
    authClient,                    \* module-level handles (server.ts:12-14):
    googleDocs,                    \*   "null", or the object assigned
    googleDrive,
    authorizeCalls,                \* calls of authorize() so far
    handleWrites,                  \* assignments of an object to a handle so far
    afterFailure,                  \* a failed invocation has been answered
    pc,                            \* position of the tool handler
    tool, args,                    \* request.params.name / .arguments
    fullText,                      \* text reconstructed from documents.get
    docInfo,                       \* endIndex of the last element, from documents.get
    calls,                         \* remote calls issued by this invocation
    result,                        \* outcome of the invocation
    inflight,                      \* handlers running side by side: per slot, the
                                   \* position and what the handler has read
    remoteDoc,                     \* the document at the remote service
    started                        \* invocations dispatched so far

hexVars == <<hexIn, hexOut>>
buildVars == <<bIntent, bOut>>
locVars == <<locIn, locOut>>
ordVars == <<oObj, oOut, oCalls>>
pureVars == <<hexVars, buildVars, locVars, ordVars>>
clientVars == <<authClient, googleDocs, googleDrive, authorizeCalls, handleWrites>>
invVars == <<afterFailure, pc, tool, args, fullText, docInfo, calls, result>>
concVars == <<inflight, remoteDoc, started>>
otherVars == <<pureVars, concVars>>
srvVars == <<environment, serverState, clientVars, invVars, concVars>>
vars == <<hexIn, hexOut, bIntent, bOut, locIn, locOut, oObj, oOut, oCalls,
          environment, serverState, authClient, googleDocs, googleDrive,
          authorizeCalls, handleWrites, afterFailure, pc, tool, args, fullText,
          docInfo, calls, result,
          inflight, remoteDoc, started>>

----------------------------------------------------------------------------
(* JavaScript values *)

Undefined == <<"undefined", 0>>
JNull == <<"null", 0>>
JBool(b) == <<"bool", b>>
JNum(n) == <<"num", n>>
JStr(s) == <<"str", s>>

IsStr(v) == v[1] = "str"
IsNum(v) == v[1] = "num"

\* ToBoolean(v): the values the handlers and helpers test with `!v` / `if (v)`.
Truthy(v) ==
    CASE v[1] = "undefined" -> FALSE
      [] v[1] = "null" -> FALSE
      [] v[1] = "bool" -> v[2]
      [] v[1] = "num" -> v[2] # 0
      [] v[1] = "str" -> Len(v[2]) > 0
      [] OTHER -> TRUE

EmptyFn == [x \in {} |-> x]

\* All strings over alphabet A of length at most n.
StringsUpTo(A, n) == UNION {[1..k -> A] : k \in 0..n}

----------------------------------------------------------------------------
(* Characters and parseInt(s, 16) *)

HexLower == <<"0","1","2","3","4","5","6","7","8","9","a","b","c","d","e","f">>
HexUpper == <<"0","1","2","3","4","5","6","7","8","9","A","B","C","D","E","F">>

IsHexDigit(c) == \E i \in 1..16 : HexLower[i] = c \/ HexUpper[i] = c
HexValue(c) == (CHOOSE i \in 1..16 : HexLower[i] = c \/ HexUpper[i] = c) - 1

\* StrWhiteSpaceChar, which parseInt skips: the white space and the line
\* terminators of ECMAScript.  A character that TLA+ cannot write is a token:
\* VT is U+000B, NBSP U+00A0, BOM U+FEFF, LS U+2028, PS U+2029 and USP any
\* other space separator (U+1680, U+2000 to U+200A, U+202F, U+205F, U+3000).
IsWhiteSpace(c) ==
    c \in {" ", "\t", "\n", "\r", "\f", "VT", "NBSP", "BOM", "LS", "PS", "USP"}

Drop(s, k) == SubSeq(s, k + 1, Len(s))

RECURSIVE TrimLeft(_)
TrimLeft(s) ==
    IF Len(s) > 0 /\ IsWhiteSpace(s[1]) THEN TrimLeft(Drop(s, 1)) ELSE s

\* The longest prefix of s made of hexadecimal digits.
RECURSIVE HexPrefix(_)
HexPrefix(s) ==
    IF Len(s) > 0 /\ IsHexDigit(s[1])
    THEN <<s[1]>> \o HexPrefix(Drop(s, 1))
    ELSE <<>>

RECURSIVE HexNumber(_)
HexNumber(z) ==
    IF Len(z) = 0 THEN 0
    ELSE 16 * HexNumber(SubSeq(z, 1, Len(z) - 1)) + HexValue(z[Len(z)])

\* parseInt(s, 16) of ECMAScript: leading white space is skipped, one sign
\* and one "0x"/"0X" prefix are accepted, the longest prefix of hexadecimal
\* digits is the number (what follows it is ignored), and the result is NaN
\* when that prefix is empty.
ParseInt16(s) ==
    LET t == TrimLeft(s)
        neg == Len(t) > 0 /\ t[1] = "-"
        u == IF Len(t) > 0 /\ t[1] \in {"+", "-"} THEN Drop(t, 1) ELSE t
        w == IF Len(u) >= 2 /\ u[1] = "0" /\ u[2] \in {"x", "X"}
             THEN Drop(u, 2) ELSE u
        z == HexPrefix(w)
    IN IF Len(z) = 0 THEN [nan |-> TRUE, value |-> 0]
       ELSE [nan |-> FALSE,
             value |-> IF neg THEN 0 - HexNumber(z) ELSE HexNumber(z)]

----------------------------------------------------------------------------
(* hexToRgbColor, googleDocsApiHelpers.ts:54-78 *)

NoColor == [valid |-> FALSE, red |-> 0, green |-> 0, blue |-> 0]

\* Lines 56-61: strip one leading '#', expand the 3-character shorthand.
HexCleanRepeating(hex) ==
    LET h == IF Len(hex) > 0 /\ hex[1] = "#" THEN Drop(hex, 1) ELSE hex
    IN IF Len(h) = 3 THEN <<h[1], h[2], h[3], h[1], h[2], h[3]>> ELSE h
HexClean(hex) ==
    LET h == IF Len(hex) > 0 /\ hex[1] = "#" THEN Drop(hex, 1) ELSE hex
    IN IF Len(h) = 3 THEN <<h[1], h[1], h[2], h[2], h[3], h[3]>> ELSE h

\* (x >> k) & 255 on a number within the int32 range: an arithmetic shift is
\* the floor division by 2^k, and `& 255` keeps the low eight bits.
ShiftWithoutMask(x, pow) == x \div pow
ShiftAnd255(x, pow) == (x \div pow) % 256

\* hex is a JavaScript value: a string, or null.
hexToRgbColor(hex) ==
    IF ~Truthy(hex) THEN NoColor
    ELSE LET hexClean == HexClean(hex[2])
             bigint == ParseInt16(hexClean)
         IN IF Len(hexClean) # 6 THEN NoColor
            ELSE IF bigint.nan THEN NoColor
            ELSE [valid |-> TRUE,
                  red |-> ShiftAnd255(bigint.value, 65536),
                  green |-> ShiftAnd255(bigint.value, 256),
                  blue |-> ShiftAnd255(bigint.value, 1)]

----------------------------------------------------------------------------
(* buildTextStyleRequests, googleDocsApiHelpers.ts:80-127 *)

\* An Error object: its message template and the values interpolated in it.
Error(msg, detail) == <<msg, detail>>
NoError == <<"", <<>>>>

\* Values of the remote TextStyle schema.
Dimension(magnitude) == <<"dimension", <<magnitude, "PT">>>>
WeightedFontFamily(family) == <<"weightedFontFamily", family>>
OptionalColor(rgb) == <<"color", rgb>>
Link(url) == <<"link", url>>

\* A request of the batch: one shape for all kinds.
Request(kind, range, style, fields) ==
    [kind |-> kind, range |-> range, style |-> style, fields |-> fields]

\* Array.prototype.join(','): the names with a "," token between neighbours.
RECURSIVE Join(_)
Join(names) ==
    IF Len(names) = 0 THEN <<>>
    ELSE IF Len(names) = 1 THEN names
    ELSE <<names[1], ",">> \o Join(Tail(names))

\* `textStyle.x !== undefined`
PresentIfTruthy(v) == Truthy(v)
Present(v) == v # Undefined

\* `gdocsTextStyle.f = value; fieldsToUpdate.push(name)`
Put(acc, field, name, value) ==
    [acc EXCEPT !.style = (field :> value) @@ @, !.fields = Append(@, name)]

BuildStart == [style |-> EmptyFn, fields |-> <<>>, error |-> NoError]

\* Lines 88-91: the four emphasis flags.
FlagStep(acc, textStyle, attr) ==
    IF Present(textStyle[attr]) THEN Put(acc, attr, attr, textStyle[attr]) ELSE acc

\* Lines 92-95.
FontSizeStep(acc, textStyle) ==
    IF Present(textStyle.fontSize)
    THEN Put(acc, "fontSize", "fontSize", Dimension(textStyle.fontSize))
    ELSE acc

\* Lines 96-99.
FontFamilyStepMaskedByAttribute(acc, textStyle) ==
    IF Present(textStyle.fontFamily)
    THEN Put(acc, "weightedFontFamily", "fontFamily",
             WeightedFontFamily(textStyle.fontFamily))
    ELSE acc
FontFamilyStep(acc, textStyle) ==
    IF Present(textStyle.fontFamily)
    THEN Put(acc, "weightedFontFamily", "weightedFontFamily",
             WeightedFontFamily(textStyle.fontFamily))
    ELSE acc

\* Lines 100-105 and 106-111: a colour attribute; `word` is the word the
\* error message names the attribute by.  A throw ends the function, so a
\* step after an error changes nothing.
ColorStep(acc, textStyle, attr, word) ==
    IF acc.error # NoError \/ ~Present(textStyle[attr]) THEN acc
    ELSE LET rgbColor == hexToRgbColor(textStyle[attr])
         IN IF ~rgbColor.valid
            THEN [acc EXCEPT !.error =
                     Error("Invalid " \o word \o " hex color: ", textStyle[attr])]
            ELSE Put(acc, attr, attr, OptionalColor(rgbColor))

\* Lines 112-115.
LinkStepMaskedByAttribute(acc, textStyle) ==
    IF acc.error = NoError /\ Present(textStyle.linkUrl)
    THEN Put(acc, "link", "linkUrl", Link(textStyle.linkUrl))
    ELSE acc
LinkStep(acc, textStyle) ==
    IF acc.error = NoError /\ Present(textStyle.linkUrl)
    THEN Put(acc, "link", "link", Link(textStyle.linkUrl))
    ELSE acc

\* The attributes that TextStyle declares (auth.ts:194-204).
TextAttributes ==
    {"bold", "italic", "underline", "strikethrough", "fontSize", "fontFamily",
     "foregroundColor", "backgroundColor", "linkUrl"}

\* The field of the remote TextStyle that an attribute of the intent sets.
FieldOf(attr) ==
    CASE attr = "fontFamily" -> "weightedFontFamily"
      [] attr = "linkUrl" -> "link"
      [] OTHER -> attr

\* The outcome of a call: thrown with an error, or returned with requests.
Thrown(error) == [thrown |-> TRUE, error |-> error, requests |-> <<>>]
Returned(requests) == [thrown |-> FALSE, error |-> NoError, requests |-> requests]

\* Lines 117-126: one request with the whole payload and the whole mask, or
\* none when no field was pushed.
EmitRequestsPerField(acc, range) ==
    [i \in 1..Len(acc.fields) |->
        Request("updateTextStyle", range,
                (acc.fields[i] :> acc.style[acc.fields[i]]), <<acc.fields[i]>>)]
EmitRequests(acc, range) ==
    IF Len(acc.fields) > 0
    THEN <<Request("updateTextStyle", range, acc.style, Join(acc.fields))>>
    ELSE <<>>

buildTextStyleRequests(textStyle, range) ==
    LET a1 == FlagStep(BuildStart, textStyle, "bold")
        a2 == FlagStep(a1, textStyle, "italic")
        a3 == FlagStep(a2, textStyle, "underline")
        a4 == FlagStep(a3, textStyle, "strikethrough")
        a5 == FontSizeStep(a4, textStyle)
        a6 == FontFamilyStep(a5, textStyle)
        a7 == ColorStep(a6, textStyle, "foregroundColor", "foreground")
        a8 == ColorStep(a7, textStyle, "backgroundColor", "background")
        a9 == LinkStep(a8, textStyle)
    IN IF a9.error # NoError THEN Thrown(a9.error)
       ELSE Returned(EmitRequests(a9, range))

\* An object as JavaScript keeps it: its own properties in insertion order,
\* each a <<key, value>> pair.  obj.key reads the value, or undefined.
HasKey(obj, key) == \E i \in DOMAIN obj : obj[i][1] = key
Get(obj, key) ==
    IF HasKey(obj, key) THEN obj[CHOOSE i \in DOMAIN obj : obj[i][1] = key][2]
    ELSE Undefined
TextStyleOf(obj) == [a \in TextAttributes |-> Get(obj, a)]

\* buildTextStyleRequests applied to an object: it reads the nine properties
\* by name, one after the other, and keeps nothing from one call to the next.
BuildFromObjectInKeyOrder(obj, range) ==
    LET out == buildTextStyleRequests(TextStyleOf(obj), range)
        keys == SelectSeq([i \in DOMAIN obj |-> obj[i][1]],
                          LAMBDA k : Get(obj, k) # Undefined)
    IN IF out.thrown \/ Len(out.requests) = 0 THEN out
       ELSE Returned(<<Request("updateTextStyle", range, out.requests[1].style,
                               Join([i \in DOMAIN keys |-> FieldOf(keys[i])]))>>)
BuildFromObject(obj, range) == buildTextStyleRequests(TextStyleOf(obj), range)

----------------------------------------------------------------------------
(* buildParagraphStyleRequests, googleDocsApiHelpers.ts:129-157 *)

\* Lines 137-144: `if (paragraphStyle.x)` is a truthiness test.
ParagraphStep(acc, paragraphStyle, attr) ==
    IF Truthy(paragraphStyle[attr])
    THEN Put(acc, attr, attr, paragraphStyle[attr])
    ELSE acc

buildParagraphStyleRequestsNamedStyleFirst(paragraphStyle, range) ==
    LET a1 == ParagraphStep(BuildStart, paragraphStyle, "namedStyleType")
        a2 == ParagraphStep(a1, paragraphStyle, "alignment")
    IN IF Len(a2.fields) > 0
       THEN Returned(<<Request("updateParagraphStyle", range, a2.style, Join(a2.fields))>>)
       ELSE Returned(<<>>)
buildParagraphStyleRequests(paragraphStyle, range) ==
    LET a1 == ParagraphStep(BuildStart, paragraphStyle, "alignment")
        a2 == ParagraphStep(a1, paragraphStyle, "namedStyleType")
    IN IF Len(a2.fields) > 0
       THEN Returned(<<Request("updateParagraphStyle", range, a2.style, Join(a2.fields))>>)
       ELSE Returned(<<>>)

----------------------------------------------------------------------------
(* The locator loop of formatMatchingText, server.ts:627-640 *)

Min(S) == CHOOSE x \in S : \A y \in S : x <= y

\* String.prototype.indexOf(needle, pos), 0-based, -1 when there is none.
\* The position is clamped to [0, length]; the empty needle matches at once.
IndexOf(text, needle, pos) ==
    LET from == IF pos < 0 THEN 0 ELSE IF pos > Len(text) THEN Len(text) ELSE pos
        hits == {k \in from..(Len(text) - Len(needle)) :
                    SubSeq(text, k + 1, k + Len(needle)) = needle}
    IN IF hits = {} THEN -1 ELSE Min(hits)

\* Line 636: where the next search resumes.
NextSearchPosAfterFirstChar(matchIndex, textToFind) == matchIndex + 1
NextSearchPos(matchIndex, textToFind) == matchIndex + Len(textToFind)

\* Line 633: the error of an exhausted scan.
NotFoundErrorCountingAttempt(matchInstance, textToFind, foundCount) ==
    Error("Could not find instance", <<matchInstance, textToFind, foundCount + 1>>)
NotFoundError(matchInstance, textToFind, foundCount) ==
    Error("Could not find instance", <<matchInstance, textToFind, foundCount>>)

LoopStart == [foundCount |-> 0, startIndex |-> -1, searchPos |-> 0]

\* Lines 630-638: `while (foundCount < matchInstance) { ... }`.
RECURSIVE LocatorLoop(_, _, _, _)
LocatorLoop(text, textToFind, matchInstance, st) ==
    IF ~(st.foundCount < matchInstance)
    THEN [thrown |-> FALSE, error |-> NoError, startIndex |-> st.startIndex]
    ELSE LET matchIndex == IndexOf(text, textToFind, st.searchPos)
         IN IF matchIndex = -1
            THEN [thrown |-> TRUE,
                  error |-> NotFoundError(matchInstance, textToFind, st.foundCount),
                  startIndex |-> st.startIndex]
            ELSE LocatorLoop(text, textToFind, matchInstance,
                     [foundCount |-> st.foundCount + 1,
                      startIndex |-> matchIndex + 1,
                      searchPos |-> NextSearchPos(matchIndex, textToFind)])

\* Lines 627-640: the range of the matchInstance-th match, or the error.
LocateOccurrence(text, textToFind, matchInstance) ==
    LET r == LocatorLoop(text, textToFind, matchInstance, LoopStart)
    IN [thrown |-> r.thrown, error |-> r.error,
        startIndex |-> r.startIndex,
        endIndex |-> r.startIndex + Len(textToFind)]

----------------------------------------------------------------------------
(* The shared client handles, server.ts:12-66 *)

\* The handles and the counters of what was done to them.
Clients(auth, docs, drive, authorizations, writes) ==
    [authClient |-> auth, googleDocs |-> docs, googleDrive |-> drive,
     authorizeCalls |-> authorizations, handleWrites |-> writes]

NoClients == Clients("null", "null", "null", 0, 0)

InitOutcome(c, error) == [clients |-> c, thrown |-> error # NoError, error |-> error]

\* Lines 18-19: the call reaches `await authorize()` when a handle is
\* missing and authClient is null.  The function gives way there: what other
\* handlers do in between is done before lines 23-25 or 27-31 run.
AwaitsAuthorizeAlways(c) == TRUE
AwaitsAuthorize(c) ==
    ~(c.googleDocs # "null" /\ c.googleDrive # "null") /\ c.authClient = "null"

\* Line 22: authorize() is called.
CallAuthorize(c) ==
    Clients(c.authClient, c.googleDocs, c.googleDrive, c.authorizeCalls + 1, c.handleWrites)

\* Lines 23-25: authorize() answered with a client.
Authorized(c) ==
    Clients("client", "docs", "drive", c.authorizeCalls, c.handleWrites + 3)

\* Lines 27-31: authorize() threw.
NotAuthorizedLeavingClient(c) ==
    Clients("client", "null", "null", c.authorizeCalls, c.handleWrites)
NotAuthorized(c) ==
    Clients("null", "null", "null", c.authorizeCalls, c.handleWrites)

\* Lines 36-41: a handle that is missing is made from authClient.
FillMissing(c) ==
    LET docs == c.authClient # "null" /\ c.googleDocs = "null"
        drive == c.authClient # "null" /\ c.googleDrive = "null"
    IN Clients(c.authClient,
               IF docs THEN "docs" ELSE c.googleDocs,
               IF drive THEN "drive" ELSE c.googleDrive,
               c.authorizeCalls,
               c.handleWrites + (IF docs THEN 1 ELSE 0) + (IF drive THEN 1 ELSE 0))

\* auth.ts:60-118: without a terminal authenticate() throws; with one it
\* answers with a client when the code typed in is exchanged for tokens.
\* TRUE stands for a client returned, FALSE for an error thrown.
authenticateWithoutTerminal(env, tokenGranted) == tokenGranted
authenticate(env, tokenGranted) ==
    IF ~env.interactive THEN FALSE ELSE tokenGranted

\* auth.ts:120-130: the saved credentials if they can be loaded, or else
\* authenticate().
authorize(env, tokenGranted) ==
    IF env.savedToken THEN TRUE ELSE authenticate(env, tokenGranted)

\* Lines 36-47: after the `if (!authClient)` block.
FinishInitialize(c) ==
    LET filled == FillMissing(c)
    IN IF filled.googleDocs = "null" \/ filled.googleDrive = "null"
       THEN InitOutcome(filled,
                Error("Google Docs and Drive clients could not be initialized.", <<>>))
       ELSE InitOutcome(filled, NoError)

\* Lines 17-19 and 36-47: a call that does not reach `await authorize()`.
initializeGoogleClient(c) ==
    IF c.googleDocs # "null" /\ c.googleDrive # "null" THEN InitOutcome(c, NoError)
    ELSE FinishInitialize(c)

\* Lines 23-47: a call from the answer of authorize() on; `c` is the handles
\* as they are then, `authorized` whether authorize() answered with a client.
initializeGoogleClientResume(c, authorized) ==
    IF ~authorized
    THEN InitOutcome(NotAuthorized(c),
             Error("Google client initialization failed. Cannot start server tools.", <<>>))
    ELSE FinishInitialize(Authorized(c))

\* Lines 51-57, from the outcome of initializeGoogleClient on.
getDocsClient(r) ==
    IF ~r.thrown /\ r.clients.googleDocs = "null"
    THEN InitOutcome(r.clients, Error("Google Docs client is not initialized.", <<>>))
    ELSE r

\* Lines 60-66, from the outcome of initializeGoogleClient on.
getDriveClient(r) ==
    IF ~r.thrown /\ r.clients.googleDrive = "null"
    THEN InitOutcome(r.clients, Error("Google Drive client is not initialized.", <<>>))
    ELSE r

----------------------------------------------------------------------------
(* The tool handlers of the CallToolRequestSchema handler, server.ts:386-810 *)

\* A remote call: the endpoint, the document and, for a batch update, its
\* requests.
DocumentsGet(documentId) ==
    [api |-> "documents.get", documentId |-> documentId, requests |-> <<>>]
BatchUpdate(documentId, requests) ==
    [api |-> "documents.batchUpdate", documentId |-> documentId, requests |-> requests]

\* A call of the drive client: drive.files.<api> on a file or folder.
DriveCall(api, fileId) == [api |-> api, documentId |-> fileId, requests |-> <<>>]

\* `location: { index }` of an insertion.
Location(index) == [index |-> index]

Range(startIndex, endIndex) == [startIndex |-> startIndex, endIndex |-> endIndex]

\* Object.keys(rest).length of the rest properties `...textStyle`: every key
\* of the arguments that the destructuring did not name, recognised or not.
RestKeyCount(rest) == Cardinality({k \in DOMAIN rest : rest[k] # Undefined})

\* server.ts:807-809: every error leaves the handler wrapped.
ToolError(error) == Error("Tool execution failed: " \o error[1], error[2])

\* The outcome of an invocation; `text` is what a case adds to its success
\* text after the awaits (createDocument, server.ts:542-544).
Pending == [status |-> "pending", error |-> NoError, text |-> ""]
Succeeded == [status |-> "ok", error |-> NoError, text |-> ""]
Failed(error) == [status |-> "error", error |-> ToolError(error), text |-> ""]

\* server.ts:807-809: an error thrown in the handler is caught and thrown
\* again, wrapped; the rejected handler is answered with an error response and
\* the process goes on.
ThrowExitingProcess(error) ==
    /\ pc' = "done"
    /\ result' = Failed(error)
    /\ calls' = calls
    /\ serverState' = "exited"
Throw(error) ==
    /\ pc' = "done"
    /\ result' = Failed(error)
    /\ calls' = calls
    /\ serverState' = serverState

\* The handler calls executeBatchUpdate (googleDocsApiHelpers.ts:7-17) and
\* awaits it.
ExecuteBatchUpdate(documentId, requests) ==
    /\ pc' = "awaitBatchUpdate"
    /\ result' = Pending
    /\ calls' = Append(calls, BatchUpdate(documentId, requests))
    /\ serverState' = serverState

\* The number of batch updates this invocation has issued.
BatchUpdateCount ==
    Cardinality({i \in DOMAIN calls : calls[i].api = "documents.batchUpdate"})

\* googleDocsApiHelpers.ts:12: the awaited call rejects; nothing catches the
\* rejection before server.ts:807.
BatchUpdateFailedRetrying(error) ==
    IF BatchUpdateCount < 2
    THEN /\ pc' = "awaitBatchUpdate"
         /\ result' = Pending
         /\ calls' = Append(calls, calls[Len(calls)])
         /\ serverState' = serverState
    ELSE Throw(error)
BatchUpdateFailed(error) == Throw(error)

\* googleDocsApiHelpers.ts:16 and the handler's return statement.
BatchUpdateSucceeded ==
    /\ pc' = "done"
    /\ result' = Succeeded
    /\ calls' = calls
    /\ serverState' = serverState

\* server.ts:592-595, 642-645, 658-661: the builder's outcome is checked and
\* sent.
SendBuiltUnchecked(documentId, built) ==
    IF built.thrown THEN Throw(built.error)
    ELSE ExecuteBatchUpdate(documentId, built.requests)
SendBuilt(documentId, built) ==
    IF built.thrown THEN Throw(built.error)
    ELSE IF Len(built.requests) = 0
    THEN Throw(Error("No valid styling properties were provided to create a request.", <<>>))
    ELSE ExecuteBatchUpdate(documentId, built.requests)

\* server.ts:586-595
ApplyTextStyleHandler(a) ==
    IF a.startIndex >= a.endIndex
    THEN Throw(Error("startIndex must be less than endIndex.", <<>>))
    ELSE IF RestKeyCount(a.textStyle) = 0
    THEN Throw(Error("At least one styling property must be provided.", <<>>))
    ELSE SendBuilt(a.documentId,
                   buildTextStyleRequests(a.textStyle, Range(a.startIndex, a.endIndex)))

\* server.ts:652-661
ApplyParagraphStyleHandler(a) ==
    IF a.startIndex >= a.endIndex
    THEN Throw(Error("startIndex must be less than endIndex.", <<>>))
    ELSE IF RestKeyCount(a.paragraphStyle) = 0
    THEN Throw(Error("At least one paragraph styling property must be provided.", <<>>))
    ELSE SendBuilt(a.documentId,
                   buildParagraphStyleRequests(a.paragraphStyle,
                                               Range(a.startIndex, a.endIndex)))

\* server.ts:568-579 with deleteContentRange of googleDocsApiHelpers.ts:33-47
DeleteContentRangeHandler(a) ==
    IF a.startIndex >= a.endIndex
    THEN Throw(Error("startIndex must be less than endIndex.", <<>>))
    ELSE IF a.startIndex < 1
    THEN Throw(Error("startIndex must be 1 or greater.", <<>>))
    ELSE ExecuteBatchUpdate(a.documentId,
                            <<Request("deleteContentRange",
                                      Range(a.startIndex, a.endIndex), EmptyFn, <<>>)>>)

\* server.ts:553-561 with insertText of googleDocsApiHelpers.ts:19-31
InsertTextHandler(a) ==
    IF a.index < 1
    THEN Throw(Error("Insert index must be 1 or greater.", <<>>))
    ELSE ExecuteBatchUpdate(a.documentId,
                            <<Request("insertText", Location(a.index),
                                      ("text" :> a.text) @@ EmptyFn, <<>>)>>)

\* server.ts:668-678
InsertTableHandler(a) ==
    ExecuteBatchUpdate(a.documentId,
                       <<Request("insertTable", Location(a.index),
                                 ("rows" :> JNum(a.rows)) @@ ("columns" :> JNum(a.columns))
                                     @@ EmptyFn, <<>>)>>)

\* server.ts:685-693
InsertPageBreakHandler(a) ==
    ExecuteBatchUpdate(a.documentId,
                       <<Request("insertPageBreak", Location(a.index), EmptyFn, <<>>)>>)

\* The handler returns its success text.
Return(text) ==
    /\ pc' = "done"
    /\ result' = [Succeeded EXCEPT !.text = text]
    /\ calls' = calls
    /\ serverState' = serverState

\* The calls that each case working on the drive alone makes, in order:
\* server.ts:479, 703, 718, 728, 739 and 742, 760, 771, 782, 796.
DriveCallsOfRepeated(name) == <<"files.update", "files.update">>
DriveCallsOf(name) ==
    CASE name = "listGoogleDocs" -> <<"files.list">>
      [] name = "getDocumentInfo" -> <<"files.get">>
      [] name = "createFolder" -> <<"files.create">>
      [] name = "listFolderContents" -> <<"files.list">>
      [] name = "moveFile" -> <<"files.get", "files.update">>
      [] name = "copyFile" -> <<"files.copy">>
      [] name = "renameFile" -> <<"files.update">>
      [] name = "deleteFile" -> <<"files.update">>
      [] name = "createFromTemplate" -> <<"files.copy">>

DriveTools ==
    {"listGoogleDocs", "getDocumentInfo", "createFolder", "listFolderContents",
     "moveFile", "copyFile", "renameFile", "deleteFile", "createFromTemplate"}

\* A case working on the drive alone, up to its first await of the drive.
DriveHandler(name, a) ==
    /\ pc' = "awaitDrive"
    /\ result' = Pending
    /\ calls' = Append(calls, DriveCall(DriveCallsOf(name)[1], a.fileId))
    /\ serverState' = serverState

\* The drive answered: the case makes its next call, or returns.
DriveResume(name, a) ==
    IF Len(calls) < Len(DriveCallsOf(name))
    THEN /\ pc' = "awaitDrive"
         /\ result' = Pending
         /\ calls' = Append(calls, DriveCall(DriveCallsOf(name)[Len(calls) + 1], a.fileId))
         /\ serverState' = serverState
    ELSE Return("")

\* server.ts:510-522: createDocument up to the await of drive.files.create.
CreateDocumentHandler(a) ==
    /\ pc' = "awaitCreate"
    /\ result' = Pending
    /\ calls' = Append(calls, DriveCall("files.create", a.title))
    /\ serverState' = serverState

\* server.ts:525: the success text names the document created.
CreatedText == "Successfully created document (ID: doc1)"

\* server.ts:543-545: the catch of the initial content.
InitialContentFailedThrowing == Throw(Error("Remote API error", <<>>))
InitialContentFailed ==
    Return(CreatedText \o " Document created but failed to add initial content.")

\* server.ts:524-550: from the response of drive.files.create on, once the
\* docs client is had (`docsClient` is the outcome of getDocsClient, which
\* is called only for initial content).
CreateDocumentResume(a, documentId, docsClient) ==
    IF ~Truthy(a.initialContent) THEN Return(CreatedText)
    ELSE IF docsClient.thrown THEN InitialContentFailed
    ELSE /\ pc' = "awaitInitialContent"
         /\ result' = Pending
         /\ calls' = Append(calls,
                BatchUpdate(documentId,
                    <<Request("insertText", Location(1),
                              ("text" :> a.initialContent) @@ EmptyFn, <<>>)>>))
         /\ serverState' = serverState

\* server.ts:804-805: no case of the switch has the name.
UnknownToolHandler(name) == Throw(Error("Unknown tool: " \o name, <<>>))

\* server.ts:602-613: up to the await of documents.get.
FormatMatchingTextHandler(a) ==
    IF RestKeyCount(a.textStyle) = 0
    THEN Throw(Error("At least one styling property (bold, color, etc.) must be provided.", <<>>))
    ELSE /\ pc' = "awaitGet"
         /\ result' = Pending
         /\ calls' = Append(calls, DocumentsGet(a.documentId))
         /\ serverState' = serverState

\* server.ts:604: `matchInstance = 1` applies when the key is absent.
MatchInstanceOf(a) ==
    IF a.matchInstance = Undefined THEN 1 ELSE a.matchInstance[2]

\* server.ts:615-645: from the response of documents.get on.  `body` is
\* JNull when the response has no body content, else the text of its runs.
FormatMatchingTextResume(a, body) ==
    IF ~IsStr(body)
    THEN Throw(Error("Document body is empty or inaccessible for document", <<>>))
    ELSE LET loc == LocateOccurrence(body[2], a.textToFind, MatchInstanceOf(a))
         IN IF loc.thrown THEN Throw(loc.error)
            ELSE SendBuilt(a.documentId, buildTextStyleRequests(a.textStyle,
                                                  Range(loc.startIndex, loc.endIndex)))

----------------------------------------------------------------------------
(* Inputs *)

MaxHexLen == 7          \* longest string given to hexToRgbColor
MaxTextLen == 6         \* longest text given to the locator loop alone
MaxNeedleLen == 2       \* longest textToFind
MaxInstance == 3        \* largest matchInstance given to the locator loop alone
MaxDocLen == 3          \* longest document text a tool invocation reads
MaxIndex == 2           \* largest startIndex of a tool invocation
MaxMatchInstance == 2   \* largest matchInstance of a tool invocation

S(token) == JStr(<<token>>)     \* a string the model never looks into

HexAlphabet == {"#", "a", "F", "G"}
HexExamples ==
    { <<"#","F","F","0","0","0","0">>, <<"1","2","3","4","5","G">>,
      <<"#","Z","Z","Z","Z","Z","Z">>, <<"#","G","G","G","G","G","G">>,
      <<"#","1","2">>, <<" ","1","2">>, <<"-","1","2","3","4","5">>,
      <<"+","1","F">>, <<"0","x","1","2","3","4">>, <<"0","x","G","1","2","3">>,
      <<"1","2","3","4","5","6","7">>, <<"Z","Z","Z">>,
      <<"\r","1","2","3","4","5">>, <<"\f","1","2">>, <<"VT","1","2","3","4","5">>,
      <<"#","NBSP","1","2">> }
HexInputs ==
    {JNull} \cup {JStr(h) : h \in StringsUpTo(HexAlphabet, MaxHexLen) \cup HexExamples}

Red == JStr(<<"#","F","0","0">>)
NotHex == JStr(<<"#","Z","Z","Z","Z","Z","Z">>)
TrailingG == JStr(<<"1","2","3","4","5","G">>)

\* Text-style intents handed to buildTextStyleRequests directly.
TextStyles ==
    [bold : {Undefined, JBool(TRUE), JBool(FALSE), JNull},
     italic : {Undefined, JBool(TRUE), JBool(FALSE)},
     underline : {Undefined, JBool(FALSE)},
     strikethrough : {Undefined, JBool(TRUE)},
     fontSize : {Undefined, JNum(0), JNum(12), JNum(-1)},
     fontFamily : {Undefined, S("Arial")},
     foregroundColor : {Undefined, Red, NotHex, TrailingG, JStr(<<>>)},
     backgroundColor : {Undefined, Red, NotHex, JNull},
     linkUrl : {Undefined, S("https://example.com")},
     other : {Undefined}]

\* Text-style rest properties of a tool invocation; `other` is a key that
\* TextStyle does not declare.  The input schema lets every attribute be
\* null (server.ts:217-225, 239-247): NullTextStyles has each attribute null
\* by itself, and next to bold.
NoTextStyle == [a \in TextAttributes \cup {"other"} |-> Undefined]
NullTextStyles ==
    {[NoTextStyle EXCEPT ![a] = JNull, !.bold = IF a = "bold" THEN JNull ELSE b] :
        a \in TextAttributes, b \in {Undefined, JBool(TRUE)}}
ToolTextStyles ==
    [bold : {Undefined, JBool(TRUE), JNull},
     italic : {Undefined}, underline : {Undefined}, strikethrough : {Undefined},
     fontSize : {Undefined, JNum(0), JNum(12)},
     fontFamily : {Undefined},
     foregroundColor : {Undefined, Red, NotHex, TrailingG},
     backgroundColor : {Undefined},
     linkUrl : {Undefined},
     other : {Undefined, JBool(TRUE)}]
        \cup NullTextStyles

\* auth.ts:206-209: the values the two attributes are declared to take;
\* the input schema lets them be null as well (server.ts:261-262).
Alignments == {S("START"), S("CENTER"), S("END"), S("JUSTIFIED")}
NamedStyleTypes ==
    {S("NORMAL_TEXT"), S("TITLE"), S("SUBTITLE"), S("HEADING_1"), S("HEADING_2"),
     S("HEADING_3"), S("HEADING_4"), S("HEADING_5"), S("HEADING_6")}
ParagraphStyles ==
    [alignment : Alignments \cup {Undefined, JNull},
     namedStyleType : NamedStyleTypes \cup {Undefined, JNull}]
ParagraphRanges == {Range(1, 2), Range(5, 10)}

ToolParagraphStyles ==
    [alignment : {Undefined, S("CENTER"), JNull},
     namedStyleType : {Undefined, S("HEADING_1"), JStr(<<>>)},
     other : {Undefined, JBool(TRUE)}]

\* Intent objects with their keys in every insertion order.
MaxKeys == 3            \* most properties of an intent object
MaxCalls == 2           \* calls of the builder in a row
PropertyValues ==
    { <<"bold", JBool(TRUE)>>,
      <<"italic", JBool(TRUE)>>, <<"italic", Undefined>>,
      <<"fontFamily", S("Arial")>>,
      <<"foregroundColor", Red>>, <<"foregroundColor", NotHex>>,
      <<"linkUrl", S("https://example.com")>> }
Objects ==
    {obj \in StringsUpTo(PropertyValues, MaxKeys) :
        \A i, j \in DOMAIN obj : i # j => obj[i][1] # obj[j][1]}

TextAlphabet == {"a", "b"}

\* The tools of a slot that start with documents.get, readGoogleDoc to
\* return the text and the other two to update the document after it
\* (server.ts:399, 438, 610), and those that send their batch update at once
\* (553-565, 568-584, 586-600, 652-666, 668-683, 685-698).
ReadingTools == {"readGoogleDoc", "appendToGoogleDoc", "formatMatchingText"}
UpdatingTools ==
    {"insertText", "deleteContentRange", "applyTextStyle", "applyParagraphStyle",
     "insertTable", "insertPageBreak"}

\* Handlers running side by side.
MaxInFlight == 2        \* handlers that can be in progress together
MaxStarted == 3         \* invocations dispatched in one run
Slots == 1..MaxInFlight
ConcurrentTools == ReadingTools \cup UpdatingTools \cup {"createDocument"}

LocateInputs ==
    [fullText : StringsUpTo(TextAlphabet, MaxTextLen),
     textToFind : StringsUpTo(TextAlphabet, MaxNeedleLen),
     matchInstance : 0..MaxInstance]

DocumentIds == {S("doc1")}

ApplyTextStyleArgs ==
    [documentId : DocumentIds,
     startIndex : 0..MaxIndex, endIndex : 0..(MaxIndex + 1), textStyle : ToolTextStyles]
ApplyParagraphStyleArgs ==
    [documentId : DocumentIds,
     startIndex : 0..MaxIndex, endIndex : 0..(MaxIndex + 1),
     paragraphStyle : ToolParagraphStyles]
DeleteContentRangeArgs ==
    [documentId : DocumentIds, startIndex : 0..MaxIndex, endIndex : 0..(MaxIndex + 1)]
InsertTextArgs ==
    [documentId : DocumentIds, text : {S("text")}, index : 0..MaxIndex]
InsertTableArgs ==
    [documentId : DocumentIds, rows : {2}, columns : {3}, index : 0..MaxIndex]
InsertPageBreakArgs ==
    [documentId : DocumentIds, index : 0..MaxIndex]
AppendToGoogleDocArgs ==
    [documentId : DocumentIds, textToAppend : {JStr(<<>>), JStr(<<"a">>)}]
DriveArgs == [fileId : {S("file1")}]
CreateDocumentArgs ==
    [title : {S("title")}, initialContent : {Undefined, JStr(<<>>), S("text")}]
ReadGoogleDocArgs == [documentId : DocumentIds]

\* README.md:18-39: the tools the feature list names.
ReadmeTools ==
    {"readGoogleDoc", "appendToGoogleDoc", "insertText", "deleteRange",
     "applyTextStyle", "applyParagraphStyle", "formatMatchingText",
     "insertTable", "insertPageBreak", "fixListFormatting",
     "listGoogleDocs", "searchGoogleDocs", "getRecentGoogleDocs", "getDocumentInfo",
     "createFolder", "listFolderContents", "getFolderInfo",
     "moveFile", "copyFile", "renameFile", "deleteFile",
     "createDocument", "createFromTemplate"}

\* server.ts:82-384: the names the list-tools handler answers with.
ListedTools ==
    {"readGoogleDoc", "appendToGoogleDoc", "listGoogleDocs", "createDocument",
     "insertText", "deleteContentRange", "applyTextStyle", "formatMatchingText",
     "applyParagraphStyle", "insertTable", "insertPageBreak", "getDocumentInfo",
     "createFolder", "listFolderContents", "moveFile", "copyFile", "renameFile",
     "deleteFile", "createFromTemplate"}

\* server.ts:390-803: the case labels of the switch of the call-tool handler.
DispatchedTools ==
    {"readGoogleDoc", "appendToGoogleDoc", "listGoogleDocs", "createDocument",
     "insertText", "deleteContentRange", "applyTextStyle", "formatMatchingText",
     "applyParagraphStyle", "insertTable", "insertPageBreak", "getDocumentInfo",
     "createFolder", "listFolderContents", "moveFile", "copyFile", "renameFile",
     "deleteFile", "createFromTemplate"}

\* The names a client may call on reading the README or the list of tools
\* that fall to the default of the switch.
UnknownToolNames == (ReadmeTools \cup ListedTools) \ DispatchedTools
FormatMatchingTextArgs ==
    [documentId : DocumentIds,
     textToFind : StringsUpTo(TextAlphabet, MaxNeedleLen),
     matchInstance : {Undefined} \cup {JNum(n) : n \in 0..MaxMatchInstance},
     textStyle : ToolTextStyles]

\* What documents.get can answer: no body content, or the text of the runs.
DocumentBodies == {JNull} \cup {JStr(t) : t \in StringsUpTo(TextAlphabet, MaxDocLen)}

\* What documents.get can answer to appendToGoogleDoc: the endIndex of the
\* last element (an element ends after it starts, so at 1 or later), or none.
MaxEndIndex == 3        \* largest endIndex of a document read by appendToGoogleDoc
LastEndIndexes == {JNull, Undefined} \cup {JNum(n) : n \in 1..MaxEndIndex}

\* The process is started with or without --setup, with or without a token
\* saved by an earlier setup, on a terminal or not.
Environment(setup, savedToken, interactive) ==
    [setup |-> setup, savedToken |-> savedToken, interactive |-> interactive]
NotStarted == Environment(FALSE, FALSE, FALSE)
Environments == [setup : BOOLEAN, savedToken : BOOLEAN, interactive : BOOLEAN]

NoArgs == [none |-> TRUE]
RemoteError == Error("remote error", <<>>)

----------------------------------------------------------------------------
(* appendToGoogleDoc, server.ts:433-468, and the remote document *)

\* Lines 443-449: `lastEndIndex` is the endIndex of the last element of the
\* body content, or undefined when there is none.
AppendIndexAtEnd(lastEndIndex) ==
    IF Truthy(lastEndIndex) THEN lastEndIndex[2] ELSE 1
AppendIndex(lastEndIndex) ==
    IF Truthy(lastEndIndex) THEN lastEndIndex[2] - 1 ELSE 1

\* Line 451: the text inserted.
TextToInsert(endIndex, textToAppend) ==
    (IF endIndex > 1 THEN <<"\n">> ELSE <<>>) \o textToAppend

\* Line 451: the length of the text inserted, a newline put first when the
\* document has text already.
InsertedLength(endIndex, textLength) ==
    (IF endIndex > 1 THEN 1 ELSE 0) + textLength

\* server.ts:433-441: up to the await of documents.get.
AppendToGoogleDocHandler(a) ==
    /\ pc' = "awaitGet"
    /\ result' = Pending
    /\ calls' = Append(calls, DocumentsGet(a.documentId))
    /\ serverState' = serverState

\* server.ts:391-402: up to the await of documents.get.
ReadGoogleDocHandler(a) ==
    /\ pc' = "awaitGet"
    /\ result' = Pending
    /\ calls' = Append(calls, DocumentsGet(a.documentId))
    /\ serverState' = serverState

\* server.ts:443-463: from the response of documents.get on; `last` is the
\* endIndex of the last element of the body content, undefined when the
\* content is empty or the element has none, null when there is no content.
\* The handler calls docs.documents.batchUpdate itself.
AppendToGoogleDocResume(a, last) ==
    LET endIndex == AppendIndex(last)
    IN ExecuteBatchUpdate(a.documentId,
           <<Request("insertText", Location(endIndex),
                     ("text" :> JStr(TextToInsert(endIndex, a.textToAppend[2]))) @@ EmptyFn,
                     <<>>)>>)

\* The remote document: the endIndex of its last element, and how many
\* updates it has taken.  A new document holds one empty paragraph.
Document(endIndex, version) == [endIndex |-> endIndex, version |-> version]
EmptyDocument == Document(2, 0)

\* What a handler in a slot holds: its position, the tool, the version of
\* the document it read, the index it computed from it, its outcome.
Slot(position, name, version, index, status) ==
    [pc |-> position, tool |-> name, readVersion |-> version, index |-> index,
     status |-> status]
IdleSlot == Slot("idle", "none", 0, 0, "pending")

\* A handler in a slot at `await getDocsClient()` or `await getDriveClient()`
\* (server.ts:392, 434, 511, 530, ...): initializeGoogleClient has returned
\* or thrown, with outcome r, and the handler gives way until the promise is
\* delivered.  The handles of r were taken when initializeGoogleClient
\* returned (line 47); what others do to the variables later does not reach
\* them.
SlotAwaitingClient(position, name, r) ==
    Slot(position, name, 0, 0, IF r.thrown THEN "error" ELSE "pending")
ClientPositions == {"awaitClient", "awaitClientForContent"}

\* What the case finds in `request.params.arguments` when it takes them
\* apart after the client has come: nothing, which is a TypeError of the
\* destructuring (server.ts:393, 435, 512, 555, ...); arguments that its own
\* tests refuse (557-559, 571-576, 589-594, 606-608, 655-660; readGoogleDoc,
\* appendToGoogleDoc, insertTable, insertPageBreak and createDocument have
\* no test); or arguments it goes on with.
ArgumentOutcomes(name) ==
    {"accepted", "no arguments"}
        \cup (IF name \in {"insertText", "deleteContentRange", "applyTextStyle",
                           "formatMatchingText", "applyParagraphStyle"}
              THEN {"refused"} ELSE {})

\* The handler in a slot from the delivery of its client on: it throws, or
\* runs to its first remote call.  The updating tools of a slot work at
\* index 1, deleteContentRange on the range 1 to 2.
SlotAfterClient(name, arguments) ==
    IF arguments # "accepted" THEN Slot("done", name, 0, 0, "error")
    ELSE IF name \in UpdatingTools
    THEN Slot("awaitBatchUpdate", name, 0, 1, "pending")
    ELSE IF name = "createDocument" THEN Slot("awaitCreate", name, 0, 0, "pending")
    ELSE Slot("awaitGet", name, 0, 0, "pending")

\* createDocument in a slot from the delivery of the Docs client for its
\* initial content on: an error of getDocsClient is caught (server.ts:
\* 543-545), otherwise the batch update is issued.
SlotAfterCreate(thrown) ==
    IF thrown THEN Slot("done", "createDocument", 0, 0, "ok")
    ELSE Slot("awaitInitialContent", "createDocument", 0, 0, "pending")

\* The remote service is not part of the repository.  The remote document
\* after a batch update of the tool at the index has been applied: appendToGoogleDoc and insertText add their text (one
\* character here, appendToGoogleDoc after its newline), deleteContentRange
\* takes one character away; a style, a table or a page break leaves the
\* count of the text as it is.  createDocument writes to the document it
\* created, not to this one.
Updated(doc, name, index) ==
    IF name = "createDocument" THEN doc
    ELSE Document(doc.endIndex
                     + (IF name = "appendToGoogleDoc" THEN InsertedLength(index, 1)
                        ELSE IF name = "insertText" THEN 1
                        ELSE IF name = "deleteContentRange" THEN 0 - 1
                        ELSE 0),
                  doc.version + 1)

\* The remote service applies a deletion only of a range that lies in the
\* document.
Applicable(doc, name, index) ==
    name = "deleteContentRange" => index + 1 <= doc.endIndex

----------------------------------------------------------------------------
(* The pure functions, each applied to an input drawn at the start *)

NotCalled(out) == [done |-> FALSE, out |-> out]
Called(out) == [done |-> TRUE, out |-> out]

HexIdle == hexIn = Undefined /\ hexOut = NotCalled(NoColor)
BuildIdle == bIntent = Undefined /\ bOut = NotCalled(Returned(<<>>))
LocateIdle == locIn = Undefined /\ locOut = NotCalled(Undefined)
OrderIdle == oObj = <<>> /\ oOut = Returned(<<>>) /\ oCalls = 0
ServerIdle ==
    /\ environment = NotStarted
    /\ serverState = "starting"
    /\ authClient = "null" /\ googleDocs = "null" /\ googleDrive = "null"
    /\ authorizeCalls = 0 /\ handleWrites = 0
    /\ afterFailure = FALSE
    /\ pc = "idle"
    /\ tool = "none"
    /\ args = NoArgs
    /\ fullText = Undefined
    /\ docInfo = Undefined
    /\ calls = <<>>
    /\ result = Pending
    /\ inflight = [slot \in Slots |-> IdleSlot]
    /\ remoteDoc = EmptyDocument
    /\ started = 0

HexCall ==
    /\ ~hexOut.done
    /\ hexOut' = Called(hexToRgbColor(hexIn))
    /\ UNCHANGED <<hexIn, buildVars, locVars, ordVars, srvVars>>

BuildRange == Range(5, 10)

BuildCall ==
    /\ ~bOut.done
    /\ bOut' = Called(buildTextStyleRequests(bIntent, BuildRange))
    /\ UNCHANGED <<bIntent, hexVars, locVars, ordVars, srvVars>>

LocateCall ==
    /\ ~locOut.done
    /\ locOut' = Called(LocateOccurrence(locIn.fullText, locIn.textToFind,
                                         locIn.matchInstance))
    /\ UNCHANGED <<locIn, hexVars, buildVars, ordVars, srvVars>>

\* The builder is called again and again, each time with any object.
OrderCall ==
    /\ oCalls < MaxCalls
    /\ \E obj \in Objects :
          /\ oObj' = obj
          /\ oOut' = BuildFromObject(obj, BuildRange)
    /\ oCalls' = oCalls + 1
    /\ UNCHANGED <<hexVars, buildVars, locVars, srvVars>>

Init == HexIdle /\ BuildIdle /\ LocateIdle /\ OrderIdle /\ ServerIdle
InitHex ==
    /\ hexIn \in HexInputs /\ hexOut = NotCalled(NoColor)
    /\ BuildIdle /\ LocateIdle /\ OrderIdle /\ ServerIdle
ParagraphCall ==
    /\ ~bOut.done
    /\ \E range \in ParagraphRanges :
          bOut' = Called(buildParagraphStyleRequests(bIntent, range))
    /\ UNCHANGED <<bIntent, hexVars, locVars, ordVars, srvVars>>

InitBuild ==
    /\ bIntent \in TextStyles /\ bOut = NotCalled(Returned(<<>>))
    /\ HexIdle /\ LocateIdle /\ OrderIdle /\ ServerIdle
InitLocate ==
    /\ locIn \in LocateInputs /\ locOut = NotCalled(Undefined)
    /\ HexIdle /\ BuildIdle /\ OrderIdle /\ ServerIdle

SpecHex == InitHex /\ [][HexCall]_vars
SpecBuild == InitBuild /\ [][BuildCall]_vars
SpecLocate == InitLocate /\ [][LocateCall]_vars
InitParagraph ==
    /\ bIntent \in ParagraphStyles /\ bOut = NotCalled(Returned(<<>>))
    /\ HexIdle /\ LocateIdle /\ OrderIdle /\ ServerIdle
SpecParagraph == InitParagraph /\ [][ParagraphCall]_vars
SpecOrder == Init /\ [][OrderCall]_vars

----------------------------------------------------------------------------
(* The server: start-up, then one tool invocation followed from its receipt
   to its response *)

CurrentClients ==
    Clients(authClient, googleDocs, googleDrive, authorizeCalls, handleWrites)

SetClients(c) ==
    /\ authClient' = c.authClient
    /\ googleDocs' = c.googleDocs
    /\ googleDrive' = c.googleDrive
    /\ authorizeCalls' = c.authorizeCalls
    /\ handleWrites' = c.handleWrites

\* The handler, or startServer, gives way at `await authorize()`.
AwaitAuthorize(position) ==
    /\ pc' = position
    /\ result' = Pending
    /\ calls' = calls
    /\ serverState' = serverState

\* The handler gives way at `await getDocsClient()` or `await
\* getDriveClient()`, also when the handles are set: both are async
\* functions (server.ts:51-66).  initializeGoogleClient has returned or
\* thrown, with outcome r; the promise holds the client, or the error that
\* is thrown in the handler when it is resumed.
AwaitClient(position, r) ==
    /\ pc' = position
    /\ result' = [Pending EXCEPT !.error = r.error]
    /\ calls' = calls
    /\ serverState' = serverState

\* Where a handler awaits authorize(): in the getDocsClient or getDriveClient
\* that its case begins with, or in createDocument's getDocsClient
\* (server.ts:530).
AuthorizePositions == {"awaitAuthorize", "awaitAuthorizeForContent"}

\* The case of the switch, after its first statement.
HandlerOf(name, a) ==
    CASE name = "readGoogleDoc" -> ReadGoogleDocHandler(a)
      [] name = "appendToGoogleDoc" -> AppendToGoogleDocHandler(a)
      [] name = "createDocument" -> CreateDocumentHandler(a)
      [] name = "insertText" -> InsertTextHandler(a)
      [] name = "deleteContentRange" -> DeleteContentRangeHandler(a)
      [] name = "applyTextStyle" -> ApplyTextStyleHandler(a)
      [] name = "formatMatchingText" -> FormatMatchingTextHandler(a)
      [] name = "applyParagraphStyle" -> ApplyParagraphStyleHandler(a)
      [] name = "insertTable" -> InsertTableHandler(a)
      [] name = "insertPageBreak" -> InsertPageBreakHandler(a)
      [] name \in DriveTools -> DriveHandler(name, a)

\* server.ts:813-822: with --setup, runSetup() (auth.ts:133-142) and the
\* function returns; otherwise initializeGoogleClient is called, which
\* gives way at `await authorize()`.  A failure ends the process with code 1.
StartServer ==
    /\ serverState = "starting"
    /\ \E env \in Environments, tokenGranted \in BOOLEAN :
          /\ environment' = env
          /\ IF env.setup
             THEN /\ serverState' = IF authenticate(env, tokenGranted)
                                    THEN "setup done" ELSE "exited"
                  /\ UNCHANGED clientVars
             ELSE IF AwaitsAuthorize(CurrentClients)
             THEN /\ SetClients(CallAuthorize(CurrentClients))
                  /\ serverState' = "authorizing"
             ELSE LET r == initializeGoogleClient(CurrentClients)
                  IN /\ SetClients(r.clients)
                     /\ serverState' = IF r.thrown THEN "exited" ELSE "connected"
    /\ UNCHANGED <<invVars, otherVars>>

\* authorize() answers, or throws, and what awaited it goes on: startServer
\* to connect the transport (server.ts:822-827), a handler to the await of
\* the getDocsClient or getDriveClient that called initializeGoogleClient.  After the start the token file
\* and the terminal are what they are then.
AuthorizeAnswers ==
    /\ \/ serverState = "authorizing"
       \/ pc \in AuthorizePositions
       \/ \E slot \in Slots : inflight[slot].pc \in AuthorizePositions
    /\ \E tokenGranted \in BOOLEAN :
          \/ /\ serverState = "authorizing"
             /\ LET r == initializeGoogleClientResume(CurrentClients,
                              authorize(environment, tokenGranted))
                IN /\ SetClients(r.clients)
                   /\ serverState' = IF r.thrown THEN "exited" ELSE "connected"
             /\ UNCHANGED <<environment, invVars, otherVars>>
          \/ /\ pc = "awaitAuthorize"
             /\ LET i == initializeGoogleClientResume(CurrentClients, tokenGranted)
                    r == IF tool \in DriveTools \cup {"createDocument"}
                         THEN getDriveClient(i) ELSE getDocsClient(i)
                IN /\ SetClients(r.clients)
                   /\ AwaitClient("awaitClient", r)
             /\ UNCHANGED <<environment, afterFailure, tool, args, fullText, docInfo,
                            otherVars>>
          \/ /\ pc = "awaitAuthorizeForContent"
             /\ LET r == getDocsClient(
                              initializeGoogleClientResume(CurrentClients, tokenGranted))
                IN /\ SetClients(r.clients)
                   /\ AwaitClient("awaitClientForContent", r)
             /\ UNCHANGED <<environment, afterFailure, tool, args, fullText, docInfo,
                            otherVars>>
          \/ \E slot \in Slots :
                /\ inflight[slot].pc \in AuthorizePositions
                /\ LET i == initializeGoogleClientResume(CurrentClients, tokenGranted)
                       r == IF inflight[slot].tool = "createDocument"
                                  /\ inflight[slot].pc = "awaitAuthorize"
                            THEN getDriveClient(i) ELSE getDocsClient(i)
                   IN /\ SetClients(r.clients)
                      /\ inflight' = [inflight EXCEPT ![slot] =
                            SlotAwaitingClient(
                                IF @.pc = "awaitAuthorizeForContent"
                                THEN "awaitClientForContent" ELSE "awaitClient",
                                @.tool, r)]
                /\ UNCHANGED <<environment, serverState, remoteDoc, started, invVars,
                               pureVars>>

\* A tool call is taken to be followed: the transport is connected and the
\* invocation followed before has been answered.  What a handler keeps
\* (name, arguments, calls, result) is local to its run; the handlers that
\* run next to it are followed in the slots of the concurrent
\* specification.
CanReceive ==
    /\ serverState = "connected"
    /\ pc = "idle"

\* server.ts:387: the handler is entered with the name and the arguments.
Receives(name, a) ==
    /\ tool' = name
    /\ args' = a
    /\ fullText' = Undefined
    /\ docInfo' = Undefined
    /\ UNCHANGED <<environment, afterFailure, otherVars>>

\* `const docs = await getDocsClient()`, the first statement of each case,
\* up to where the handler gives way: at `await authorize()`, or at the
\* await of getDocsClient with the handles filled (lines 36-41).
WithDocsClient ==
    IF AwaitsAuthorize(CurrentClients)
    THEN SetClients(CallAuthorize(CurrentClients)) /\ AwaitAuthorize("awaitAuthorize")
    ELSE LET r == getDocsClient(initializeGoogleClient(CurrentClients))
         IN SetClients(r.clients) /\ AwaitClient("awaitClient", r)

ApplyTextStyle ==
    /\ CanReceive
    /\ \E a \in ApplyTextStyleArgs :
          Receives("applyTextStyle", a) /\ WithDocsClient

ApplyParagraphStyle ==
    /\ CanReceive
    /\ \E a \in ApplyParagraphStyleArgs :
          Receives("applyParagraphStyle", a) /\ WithDocsClient

DeleteContentRange ==
    /\ CanReceive
    /\ \E a \in DeleteContentRangeArgs :
          Receives("deleteContentRange", a) /\ WithDocsClient

FormatMatchingText ==
    /\ CanReceive
    /\ \E a \in FormatMatchingTextArgs :
          Receives("formatMatchingText", a) /\ WithDocsClient

InsertText ==
    /\ CanReceive
    /\ \E a \in InsertTextArgs :
          Receives("insertText", a) /\ WithDocsClient

InsertTable ==
    /\ CanReceive
    /\ \E a \in InsertTableArgs :
          Receives("insertTable", a) /\ WithDocsClient

InsertPageBreak ==
    /\ CanReceive
    /\ \E a \in InsertPageBreakArgs :
          Receives("insertPageBreak", a) /\ WithDocsClient

\* `const drive = await getDriveClient()`, the first statement of each case
\* on the drive, up to where the handler gives way.
WithDriveClient ==
    IF AwaitsAuthorize(CurrentClients)
    THEN SetClients(CallAuthorize(CurrentClients)) /\ AwaitAuthorize("awaitAuthorize")
    ELSE LET r == getDriveClient(initializeGoogleClient(CurrentClients))
         IN SetClients(r.clients) /\ AwaitClient("awaitClient", r)

CreateDocument ==
    /\ CanReceive
    /\ \E a \in CreateDocumentArgs :
          Receives("createDocument", a) /\ WithDriveClient

\* A call of a tool that works on the drive alone.
DriveCase ==
    /\ CanReceive
    /\ \E name \in DriveTools, a \in DriveArgs :
          Receives(name, a) /\ WithDriveClient

ReadGoogleDoc ==
    /\ CanReceive
    /\ \E a \in ReadGoogleDocArgs :
          Receives("readGoogleDoc", a) /\ WithDocsClient

AppendToGoogleDoc ==
    /\ CanReceive
    /\ \E a \in AppendToGoogleDocArgs :
          Receives("appendToGoogleDoc", a) /\ WithDocsClient

\* A call whose name no case of the switch has.
UnknownTool ==
    /\ CanReceive
    /\ \E name \in UnknownToolNames :
          /\ Receives(name, NoArgs)
          /\ UnknownToolHandler(name)
          /\ UNCHANGED clientVars

\* The handler is resumed after `await getDocsClient()` or `await
\* getDriveClient()`: with the error, which goes to the catch of the switch,
\* or with the client, and the case runs to its first remote call or to its
\* throw.  createDocument, resumed for its initial content, issues the batch
\* update, or catches the error (server.ts:530-545).
ClientResponds ==
    /\ pc \in ClientPositions
    /\ IF pc = "awaitClientForContent"
       THEN CreateDocumentResume(args, docInfo, InitOutcome(CurrentClients, result.error))
       ELSE IF result.error # NoError THEN Throw(result.error)
       ELSE HandlerOf(tool, args)
    /\ UNCHANGED <<environment, clientVars, afterFailure, tool, args, fullText, docInfo,
                   otherVars>>

\* documents.get answers the formatMatchingText handler.
DocumentsGetResponds ==
    /\ pc = "awaitGet"
    /\ tool = "formatMatchingText"
    /\ \/ fullText' = fullText /\ Throw(RemoteError)
       \/ \E body \in DocumentBodies :
             fullText' = body /\ FormatMatchingTextResume(args, body)
    /\ UNCHANGED <<environment, clientVars, afterFailure, tool, args, docInfo, otherVars>>

\* documents.get answers the readGoogleDoc handler, which returns what it
\* read (server.ts:404-430), or the appendToGoogleDoc handler.
DocumentInfoResponds ==
    /\ pc = "awaitGet"
    /\ tool \in {"readGoogleDoc", "appendToGoogleDoc"}
    /\ \/ docInfo' = docInfo /\ Throw(RemoteError)
       \/ tool = "readGoogleDoc" /\ docInfo' = docInfo /\ Return("")
       \/ /\ tool = "appendToGoogleDoc"
          /\ \E last \in LastEndIndexes :
                docInfo' = last /\ AppendToGoogleDocResume(args, last)
    /\ UNCHANGED <<environment, clientVars, afterFailure, tool, args, fullText, otherVars>>

\* The drive answers a case working on the drive alone, or fails.
DriveResponds ==
    /\ pc = "awaitDrive"
    /\ tool \in DriveTools
    /\ \E ok \in BOOLEAN :
          IF ok THEN DriveResume(tool, args) ELSE Throw(RemoteError)
    /\ UNCHANGED <<environment, clientVars, afterFailure, tool, args, fullText, docInfo,
                   otherVars>>

\* drive.files.create answers createDocument with the new document, whose
\* id the handler keeps, or fails.  For initial content the handler calls
\* getDocsClient and gives way at its await (server.ts:530).
DocumentCreated ==
    /\ pc = "awaitCreate"
    /\ \/ docInfo' = docInfo /\ Throw(RemoteError) /\ UNCHANGED clientVars
       \/ \E documentId \in DocumentIds :
             /\ docInfo' = documentId
             /\ IF ~Truthy(args.initialContent)
                THEN /\ UNCHANGED clientVars
                     /\ CreateDocumentResume(args, documentId, InitOutcome(CurrentClients, NoError))
                ELSE IF AwaitsAuthorize(CurrentClients)
                THEN /\ SetClients(CallAuthorize(CurrentClients))
                     /\ AwaitAuthorize("awaitAuthorizeForContent")
                ELSE LET r == getDocsClient(initializeGoogleClient(CurrentClients))
                     IN /\ SetClients(r.clients)
                        /\ AwaitClient("awaitClientForContent", r)
    /\ UNCHANGED <<environment, afterFailure, tool, args, fullText, otherVars>>

\* documents.batchUpdate answers createDocument.
InitialContentResponds ==
    /\ pc = "awaitInitialContent"
    /\ \E ok \in BOOLEAN :
          IF ok THEN Return(CreatedText \o " Initial content added to document.")
          ELSE InitialContentFailed
    /\ UNCHANGED <<environment, clientVars, afterFailure, tool, args, fullText, docInfo,
                   otherVars>>

\* documents.batchUpdate answers; the handler returns its success text or
\* the remote error is thrown.
BatchUpdateResponds ==
    /\ pc = "awaitBatchUpdate"
    /\ \E ok \in BOOLEAN :
          IF ok THEN BatchUpdateSucceeded ELSE BatchUpdateFailed(RemoteError)
    /\ UNCHANGED <<environment, clientVars, afterFailure, tool, args, fullText, docInfo,
                   otherVars>>

\* The response is sent; the server waits for the next call.
Respond ==
    /\ pc = "done"
    /\ serverState = "connected"
    /\ pc' = "idle"
    /\ tool' = "none"
    /\ args' = NoArgs
    /\ fullText' = Undefined
    /\ docInfo' = Undefined
    /\ calls' = <<>>
    /\ result' = Pending
    /\ afterFailure' = (afterFailure \/ result.status = "error")
    /\ UNCHANGED <<environment, serverState, clientVars, otherVars>>

Next ==
    \/ StartServer
    \/ AuthorizeAnswers
    \/ ApplyTextStyle
    \/ ApplyParagraphStyle
    \/ DeleteContentRange
    \/ FormatMatchingText
    \/ InsertText
    \/ InsertTable
    \/ InsertPageBreak
    \/ ReadGoogleDoc
    \/ AppendToGoogleDoc
    \/ DriveCase
    \/ CreateDocument
    \/ UnknownTool
    \/ ClientResponds
    \/ DocumentsGetResponds
    \/ DocumentInfoResponds
    \/ DriveResponds
    \/ DocumentCreated
    \/ InitialContentResponds
    \/ BatchUpdateResponds
    \/ Respond

Spec == Init /\ [][Next]_vars

----------------------------------------------------------------------------
(* The server with handlers side by side: server.ts:386 registers an async
   function, which is called for each request as it arrives and gives way at
   each await; nothing in the repository queues the calls. *)

RunningSlots == {slot \in Slots : inflight[slot].pc \notin {"idle", "done"}}

\* The slot that the next handler takes: the first that holds none.
FreeSlot ==
    IF \E slot \in Slots : inflight[slot].pc = "idle"
    THEN CHOOSE slot \in Slots :
            /\ inflight[slot].pc = "idle"
            /\ \A other \in 1..(slot - 1) : inflight[other].pc # "idle"
    ELSE 0

\* A request arrives and its handler runs to its first await, which is
\* `await authorize()` inside initializeGoogleClient when the handles are
\* missing, and otherwise the `await getDocsClient()` (createDocument:
\* `await getDriveClient()`) of its case.
Dispatch ==
    /\ serverState = "connected"
    /\ started < MaxStarted
    /\ \E slot \in Slots, name \in ConcurrentTools :
          /\ slot = FreeSlot
          /\ IF AwaitsAuthorize(CurrentClients)
             THEN /\ SetClients(CallAuthorize(CurrentClients))
                  /\ inflight' = [inflight EXCEPT ![slot] =
                         Slot("awaitAuthorize", name, 0, 0, "pending")]
             ELSE LET i == initializeGoogleClient(CurrentClients)
                      r == IF name = "createDocument"
                           THEN getDriveClient(i) ELSE getDocsClient(i)
                  IN /\ SetClients(r.clients)
                     /\ inflight' = [inflight EXCEPT ![slot] =
                            SlotAwaitingClient("awaitClient", name, r)]
    /\ started' = started + 1
    /\ UNCHANGED <<environment, serverState, remoteDoc, invVars, pureVars>>

\* The client is delivered to a handler, or the error of getDocsClient or
\* getDriveClient is thrown in it: the handler takes its arguments apart,
\* tests them and issues its first remote call; createDocument, back for
\* its initial content, issues the batch update (server.ts:530-541).
ClientAnswers ==
    \E slot \in Slots :
        /\ inflight[slot].pc \in ClientPositions
        /\ \E arguments \in ArgumentOutcomes(inflight[slot].tool) :
              inflight' = [inflight EXCEPT ![slot] =
                  IF @.pc = "awaitClientForContent"
                  THEN SlotAfterCreate(@.status = "error")
                  ELSE IF @.status = "error" THEN Slot("done", @.tool, 0, 0, "error")
                  ELSE SlotAfterClient(@.tool, arguments)]
        /\ UNCHANGED <<environment, serverState, clientVars, remoteDoc, started, invVars,
                       pureVars>>

\* documents.get answers a handler: it fails, or the handler computes from
\* the document as it is now and goes on to the batch update (server.ts:
\* 443-453 and 615-645); formatMatchingText can also fail to find the text.
GetAnswers ==
    \E slot \in Slots :
        /\ inflight[slot].pc = "awaitGet"
        /\ \E outcome \in {"read", "remote error", "not found"} :
              /\ outcome = "not found" => inflight[slot].tool = "formatMatchingText"
              /\ inflight' = [inflight EXCEPT ![slot] =
                     IF outcome = "read" /\ @.tool = "readGoogleDoc"
                     THEN Slot("done", @.tool, 0, 0, "ok")
                     ELSE IF outcome = "read"
                     THEN Slot("awaitBatchUpdate", @.tool, remoteDoc.version,
                               IF @.tool = "appendToGoogleDoc"
                               THEN AppendIndex(JNum(remoteDoc.endIndex)) ELSE 1,
                               "pending")
                     ELSE Slot("done", @.tool, 0, 0, "error")]
        /\ UNCHANGED <<environment, serverState, clientVars, remoteDoc, started, invVars, pureVars>>

\* drive.files.create answers createDocument in a slot, or fails; with
\* initial content the handler calls getDocsClient and gives way at its
\* await (server.ts:524-530).
CreateAnswers ==
    \E slot \in Slots :
        /\ inflight[slot].pc = "awaitCreate"
        /\ \E outcome \in {"created", "created, content to add", "remote error"} :
              IF outcome = "created, content to add"
              THEN IF AwaitsAuthorize(CurrentClients)
                   THEN /\ SetClients(CallAuthorize(CurrentClients))
                        /\ inflight' = [inflight EXCEPT ![slot].pc = "awaitAuthorizeForContent"]
                   ELSE LET r == getDocsClient(initializeGoogleClient(CurrentClients))
                        IN /\ SetClients(r.clients)
                           /\ inflight' = [inflight EXCEPT ![slot] =
                                  SlotAwaitingClient("awaitClientForContent", @.tool, r)]
              ELSE /\ UNCHANGED clientVars
                   /\ inflight' = [inflight EXCEPT ![slot] =
                          Slot("done", @.tool, 0, 0,
                               IF outcome = "created" THEN "ok" ELSE "error")]
        /\ UNCHANGED <<environment, serverState, remoteDoc, started, invVars, pureVars>>

\* The positions of a handler at `await docs.documents.batchUpdate(...)`.
BatchUpdatePositions == {"awaitBatchUpdate", "awaitInitialContent"}

\* The remote service takes a batch update that a handler has sent: it
\* applies it to the document or rejects it.  The handler is told later.
RemoteApplies ==
    \E slot \in Slots :
        /\ inflight[slot].pc \in BatchUpdatePositions
        /\ inflight[slot].status = "pending"
        /\ \E accepts \in BOOLEAN :
              LET applied == accepts /\ Applicable(remoteDoc, inflight[slot].tool,
                                                   inflight[slot].index)
              IN /\ inflight' = [inflight EXCEPT ![slot] =
                        Slot(@.pc, @.tool, 0, 0, IF applied THEN "applied" ELSE "rejected")]
                 /\ remoteDoc' =
                        IF applied
                        THEN Updated(remoteDoc, inflight[slot].tool, inflight[slot].index)
                        ELSE remoteDoc
        /\ UNCHANGED <<environment, serverState, clientVars, started, invVars, pureVars>>

\* documents.batchUpdate answers a handler or throws in it: the handler
\* returns its text, or the error goes to the catch of the switch
\* (server.ts:807-809).  createDocument catches the error itself and returns
\* its text in both cases (543-548).
BatchUpdateAnswers ==
    \E slot \in Slots :
        /\ inflight[slot].pc \in BatchUpdatePositions
        /\ inflight[slot].status \in {"applied", "rejected"}
        /\ inflight' = [inflight EXCEPT ![slot] =
               Slot("done", @.tool, 0, 0,
                    IF @.status = "applied" \/ @.tool = "createDocument"
                    THEN "ok" ELSE "error")]
        /\ UNCHANGED <<environment, serverState, clientVars, remoteDoc, started, invVars,
                       pureVars>>

\* The response of a handler that has ended is sent.
Answer ==
    \E slot \in Slots :
        /\ inflight[slot].pc = "done"
        /\ inflight' = [inflight EXCEPT ![slot] = IdleSlot]
        /\ UNCHANGED <<environment, serverState, clientVars, remoteDoc, started, invVars, pureVars>>

NextConcurrent ==
    \/ StartServer
    \/ AuthorizeAnswers
    \/ Dispatch
    \/ GetAnswers
    \/ ClientAnswers
    \/ CreateAnswers
    \/ RemoteApplies
    \/ BatchUpdateAnswers
    \/ Answer

SpecConcurrent == Init /\ [][NextConcurrent]_vars

----------------------------------------------------------------------------
(* Vocabulary of the properties *)

\* The member names of a comma-joined field mask.
MaskNames(mask) == {mask[i] : i \in DOMAIN mask} \ {","}

ColorAttributes == {"foregroundColor", "backgroundColor"}

\* The style payload and the mask of a returned request list.
BuiltStyle(out) == IF Len(out.requests) = 0 THEN EmptyFn ELSE out.requests[1].style
BuiltMask(out) == IF Len(out.requests) = 0 THEN <<>> ELSE out.requests[1].fields

\* A hex colour as section 4.1 and the tools' input schema (server.ts:223)
\* define it: an optional '#', then exactly 3 or 6 hexadecimal digits.
StripHash(h) == IF Len(h) > 0 /\ h[1] = "#" THEN Drop(h, 1) ELSE h
HasNonHexDigit(h) == \E i \in DOMAIN StripHash(h) : ~IsHexDigit(StripHash(h)[i])
ValidHexColor(v) ==
    /\ IsStr(v)
    /\ Len(StripHash(v[2])) \in {3, 6}
    /\ ~HasNonHexDigit(v[2])

\* The 0-based offsets at which needle occurs in text.
MatchOffsets(text, needle) ==
    {k \in 0..(Len(text) - Len(needle)) : SubSeq(text, k + 1, k + Len(needle)) = needle}

\* The offset of the n-th match of the left-to-right scan in which each
\* search resumes at the end of the previous match; -1 when there is none.
RECURSIVE NthMatchOffset(_, _, _)
NthMatchOffset(text, needle, n) ==
    LET prev == IF n = 1 THEN 0 - Len(needle) ELSE NthMatchOffset(text, needle, n - 1)
        later == {k \in MatchOffsets(text, needle) : k >= prev + Len(needle)}
    IN IF (n > 1 /\ prev = -1) \/ later = {} THEN -1 ELSE Min(later)

\* The largest number of pairwise non-overlapping matches of needle in text.
NonOverlappingCount(text, needle) ==
    LET disjoint(T) == \A x, y \in T : x < y => y - x >= Len(needle)
        sizes == {Cardinality(T) : T \in {U \in SUBSET MatchOffsets(text, needle) : disjoint(U)}}
    IN CHOOSE m \in sizes : \A k \in sizes : k <= m

\* The requests this invocation has handed to documents.batchUpdate.
SentRequests ==
    UNION {{calls[i].requests[j] : j \in DOMAIN calls[i].requests} : i \in DOMAIN calls}
NoBatchUpdateSent == \A i \in DOMAIN calls : calls[i].api # "documents.batchUpdate"

----------------------------------------------------------------------------
(* C1 .. C10 *)

\* C1: in the list buildTextStyleRequests returns, the names of the
\* comma-joined field mask are exactly the fields populated in the style
\* payload, and no name occurs twice in the mask.
C1_MaskAndPayloadInLockstep ==
    (bOut.done /\ ~bOut.out.thrown) =>
        \A i \in DOMAIN bOut.out.requests :
            LET req == bOut.out.requests[i]
            IN /\ MaskNames(req.fields) = DOMAIN req.style
               /\ Len(req.fields) = 2 * Cardinality(DOMAIN req.style) - 1

C1_Witness ==
    /\ bOut.done /\ ~bOut.out.thrown
    /\ Len(bOut.out.requests) = 1
    /\ {"bold", "fontSize", "weightedFontFamily", "foregroundColor", "link"}
           \subseteq DOMAIN bOut.out.requests[1].style
    /\ bIntent.bold = JBool(FALSE)

\* C2: when buildTextStyleRequests returns, an attribute's field is in the
\* payload and in the mask exactly when the attribute is present in the
\* intent; a present flag or font size is carried with the value given, falsy
\* or not, and nothing is substituted for an absent attribute.
C2_FieldEmittedIffPresent ==
    (bOut.done /\ ~bOut.out.thrown) =>
        LET style == BuiltStyle(bOut.out)
            names == MaskNames(BuiltMask(bOut.out))
        IN /\ \A a \in TextAttributes :
                  /\ (bIntent[a] # Undefined) <=> (FieldOf(a) \in DOMAIN style)
                  /\ (bIntent[a] # Undefined) <=> (FieldOf(a) \in names)
           /\ \A a \in {"bold", "italic", "underline", "strikethrough"} :
                  a \in DOMAIN style => style[a] = bIntent[a]
           /\ "fontSize" \in DOMAIN style =>
                  style.fontSize = Dimension(bIntent.fontSize)
           /\ DOMAIN style \subseteq {FieldOf(a) : a \in TextAttributes}

C2_Witness ==
    /\ bOut.done /\ ~bOut.out.thrown
    /\ bIntent.bold = JBool(FALSE) /\ bIntent.fontSize = JNum(0)
    /\ bIntent.italic = Undefined /\ bIntent.foregroundColor = Undefined
    /\ BuiltStyle(bOut.out).bold = JBool(FALSE)
    /\ "italic" \notin DOMAIN BuiltStyle(bOut.out)

\* C3: hexToRgbColor returns invalid for every string that, after one
\* optional leading '#' is removed, holds a character that is not a
\* hexadecimal digit, wherever the character stands.
C3_NonHexCharacterIsInvalid ==
    (hexOut.done /\ IsStr(hexIn) /\ HasNonHexDigit(hexIn[2])) => ~hexOut.out.valid

\* C4: if a colour attribute present in the intent is not a valid hex colour,
\* buildTextStyleRequests throws the error that names the attribute and the
\* literal, and returns no request.
C4_InvalidColorIsRejected ==
    bOut.done =>
        \A a \in ColorAttributes :
            (bIntent[a] # Undefined /\ ~ValidHexColor(bIntent[a])) =>
                /\ bOut.out.thrown
                /\ bOut.out.requests = <<>>
                /\ \E b \in ColorAttributes :
                      /\ ~ValidHexColor(bIntent[b])
                      /\ bOut.out.error =
                            Error(IF b = "foregroundColor"
                                  THEN "Invalid foreground hex color: "
                                  ELSE "Invalid background hex color: ", bIntent[b])

\* C5: for a non-empty textToFind and n >= 1, when the text has an n-th
\* match of the non-overlapping left-to-right scan at offset p, the locator
\* loop yields startIndex = p + 1 and endIndex = p + 1 + length(textToFind).
C5_NthNonOverlappingMatch ==
    LET text == locIn.fullText
        needle == locIn.textToFind
        n == locIn.matchInstance
        p == NthMatchOffset(text, needle, n)
    IN (locOut.done /\ Len(needle) > 0 /\ n >= 1 /\ p # -1) =>
           /\ ~locOut.out.thrown
           /\ locOut.out.startIndex = p + 1
           /\ locOut.out.endIndex = p + 1 + Len(needle)

\* "ababab", "ab", 2 gives start 3, end 5.
C5_Witness ==
    /\ locOut.done
    /\ locIn.fullText = <<"a","b","a","b","a","b">>
    /\ locIn.textToFind = <<"a","b">>
    /\ locIn.matchInstance = 2
    /\ locOut.out.startIndex = 3 /\ locOut.out.endIndex = 5

\* C6: when the text read holds fewer non-overlapping matches of a non-empty
\* textToFind than requested, formatMatchingText ends with the not-found
\* error, whose count is the number of non-overlapping matches in the text,
\* and has sent no batch update.
C6_NotFoundReportsCount ==
    (/\ tool = "formatMatchingText"
     /\ IsStr(fullText)
     /\ Len(args.textToFind) > 0
     /\ NonOverlappingCount(fullText[2], args.textToFind) < MatchInstanceOf(args)) =>
        /\ pc = "done"
        /\ result.status = "error"
        /\ result.error[1] = "Tool execution failed: Could not find instance"
        /\ result.error[2] = <<MatchInstanceOf(args), args.textToFind,
                               NonOverlappingCount(fullText[2], args.textToFind)>>
        /\ NoBatchUpdateSent

\* "aa" in "aaa" with occurrence 2: one instance found.
C6_Witness ==
    /\ tool = "formatMatchingText" /\ pc = "done"
    /\ fullText = JStr(<<"a","a","a">>)
    /\ args.textToFind = <<"a","a">>
    /\ args.matchInstance = JNum(2)
    /\ result.error[2] = <<2, <<"a","a">>, 1>>

\* C7: every range of an update-text-style, update-paragraph-style or
\* delete-range request that a tool sends has startIndex >= 1 and
\* startIndex < endIndex.
C7_SentRangesAreValid ==
    \A req \in SentRequests :
        req.kind \in {"updateTextStyle", "updateParagraphStyle", "deleteContentRange"} =>
            req.range.startIndex >= 1 /\ req.range.startIndex < req.range.endIndex

\* The messages of the validation errors: range ordering, empty intent,
\* malformed colour.
ValidationMessages ==
    {"Tool execution failed: " \o m : m \in
        {"startIndex must be less than endIndex.",
         "At least one styling property must be provided.",
         "At least one styling property (bold, color, etc.) must be provided.",
         "At least one paragraph styling property must be provided.",
         "No valid styling properties were provided to create a request.",
         "Invalid foreground hex color: ",
         "Invalid background hex color: "}}

\* C8: when applyTextStyle, applyParagraphStyle or formatMatchingText ends
\* with a validation error, the invocation has issued no remote call.
C8_ValidationBeforeAnyRemoteCall ==
    (/\ pc = "done"
     /\ tool \in {"applyTextStyle", "applyParagraphStyle", "formatMatchingText"}
     /\ result.status = "error"
     /\ result.error[1] \in ValidationMessages) => calls = <<>>

\* C9: no update-text-style request that is sent carries a font size whose
\* magnitude is not a positive number.
C9_NoNonPositiveFontSizeSent ==
    \A req \in SentRequests :
        (req.kind = "updateTextStyle" /\ "fontSize" \in DOMAIN req.style) =>
            LET magnitude == req.style.fontSize[2][1]
            IN IsNum(magnitude) /\ magnitude[2] > 0

\* C10: with an empty textToFind, formatMatchingText fails and sends no
\* batch update.
C10_EmptyTextToFindIsRejected ==
    (tool = "formatMatchingText" /\ Len(args.textToFind) = 0) =>
        /\ NoBatchUpdateSent
        /\ pc = "done" => result.status = "error"

----------------------------------------------------------------------------
(* C11 .. C20 *)

\* The attributes present in a text-style intent.
PresentAttributes(textStyle) == {a \in TextAttributes : textStyle[a] # Undefined}

\* C11: when buildTextStyleRequests returns, the list is empty exactly when
\* no attribute is present; otherwise it is one update-text-style request for
\* the given range whose payload and mask hold every present attribute.
C11_OneCombinedRequest ==
    (bOut.done /\ ~bOut.out.thrown) =>
        LET present == PresentAttributes(bIntent)
            requests == bOut.out.requests
        IN /\ (present = {}) <=> (requests = <<>>)
           /\ present # {} =>
                 /\ Len(requests) = 1
                 /\ requests[1].kind = "updateTextStyle"
                 /\ requests[1].range = BuildRange
                 /\ DOMAIN requests[1].style = {FieldOf(a) : a \in present}
                 /\ MaskNames(requests[1].fields) = {FieldOf(a) : a \in present}

C11_Witness ==
    /\ bOut.done /\ ~bOut.out.thrown
    /\ Cardinality(PresentAttributes(bIntent)) >= 3
    /\ Len(bOut.out.requests) = 1
    /\ Cardinality(DOMAIN bOut.out.requests[1].style) >= 3

\* The number of member names of a mask.
MaskSize(mask) == Cardinality({i \in DOMAIN mask : mask[i] # ","})

\* C14 as stated: the mask of a non-empty intent has as many names as the
\* intent has populated attributes, and each name is the name of a populated
\* attribute of the intent.
C14_MaskNamesAreIntentNames ==
    (bOut.done /\ ~bOut.out.thrown /\ PresentAttributes(bIntent) # {}) =>
        /\ MaskSize(BuiltMask(bOut.out)) = Cardinality(PresentAttributes(bIntent))
        /\ MaskNames(BuiltMask(bOut.out)) \subseteq PresentAttributes(bIntent)

\* C14, amended: the mask of a non-empty intent has as many names as the
\* intent has populated attributes, and each name is the remote field name of
\* a populated attribute (fontFamily is named weightedFontFamily, linkUrl is
\* named link, every other attribute keeps its name).
C14_MaskNamesAreRemoteFieldNames ==
    (bOut.done /\ ~bOut.out.thrown /\ PresentAttributes(bIntent) # {}) =>
        /\ MaskSize(BuiltMask(bOut.out)) = Cardinality(PresentAttributes(bIntent))
        /\ \A i \in DOMAIN BuiltMask(bOut.out) :
              BuiltMask(bOut.out)[i] # "," =>
                 \E a \in PresentAttributes(bIntent) : BuiltMask(bOut.out)[i] = FieldOf(a)

C14_Witness ==
    /\ bOut.done /\ ~bOut.out.thrown
    /\ {"fontFamily", "linkUrl", "bold"} \subseteq PresentAttributes(bIntent)
    /\ {"weightedFontFamily", "link", "bold"} \subseteq MaskNames(BuiltMask(bOut.out))

\* The colour channel (0..255) written by two hexadecimal digits.
Channel(hi, lo) == 16 * HexValue(hi) + HexValue(lo)

\* The colour that 3 or 6 hexadecimal digits denote: each digit of the short
\* form stands for itself twice.
ColorOfDigits(h) ==
    IF Len(h) = 3
    THEN [valid |-> TRUE, red |-> Channel(h[1], h[1]),
          green |-> Channel(h[2], h[2]), blue |-> Channel(h[3], h[3])]
    ELSE [valid |-> TRUE, red |-> Channel(h[1], h[2]),
          green |-> Channel(h[3], h[4]), blue |-> Channel(h[5], h[6])]

\* C20: with at most one leading '#' set aside, a string of exactly 3 or 6
\* hexadecimal digits yields the colour its digits denote (the short form
\* "abc" the colour of "aabbcc"), and a string of any other length is invalid.
C20_ThreeOrSixDigitsDecoded ==
    (hexOut.done /\ IsStr(hexIn)) =>
        LET h == StripHash(hexIn[2])
        IN /\ Len(h) \notin {3, 6} => ~hexOut.out.valid
           /\ (Len(h) \in {3, 6} /\ ~HasNonHexDigit(hexIn[2])) =>
                 hexOut.out = ColorOfDigits(h)

C20_Witness ==
    /\ hexOut.done
    /\ hexIn = JStr(<<"#", "a", "F", "a">>)
    /\ hexOut.out = [valid |-> TRUE, red |-> 170, green |-> 255, blue |-> 170]

\* The names of the mask in the order the builder tests the attributes.
MaskOrder ==
    <<"bold", "italic", "underline", "strikethrough", "fontSize",
      "weightedFontFamily", "foregroundColor", "backgroundColor", "link">>

\* The mask that a set of present attributes determines.
MaskOf(present) ==
    Join(SelectSeq(MaskOrder, LAMBDA f : \E a \in present : f = FieldOf(a)))

\* C13: whenever the builder returns, the mask is the fixed-order list of the
\* fields of the attributes present, whatever the insertion order of the
\* object's keys, the attributes' values and the calls made before.
C13_MaskDependsOnPresenceOnly ==
    (oCalls > 0 /\ ~oOut.thrown) =>
        BuiltMask(oOut) = MaskOf(PresentAttributes(TextStyleOf(oObj)))

C13_Witness ==
    /\ oCalls = MaxCalls
    /\ ~oOut.thrown
    /\ Len(oObj) = 3
    /\ oObj[1][1] = "linkUrl" /\ oObj[2][1] = "fontFamily" /\ oObj[3][1] = "bold"
    /\ BuiltMask(oOut) = <<"bold", ",", "weightedFontFamily", ",", "link">>

\* The tools that send a style.
StyleTools == {"applyTextStyle", "formatMatchingText", "applyParagraphStyle"}

\* The style intent of the invocation under way.
IntentOfArgs == IF tool = "applyParagraphStyle" THEN args.paragraphStyle ELSE args.textStyle
DeclaredAttributes ==
    IF tool = "applyParagraphStyle" THEN {"alignment", "namedStyleType"} ELSE TextAttributes

\* No declared attribute of the intent has a value other than null.
OnlyUnrecognisedOrNull ==
    \A a \in DeclaredAttributes : IntentOfArgs[a] \in {Undefined, JNull}

\* The intent yields no operation: a text style none of whose declared
\* attributes is present, a paragraph style whose declared attributes are
\* absent, null or empty.
YieldsNoOperation ==
    IF tool = "applyParagraphStyle"
    THEN \A a \in DeclaredAttributes : ~Truthy(IntentOfArgs[a])
    ELSE \A a \in DeclaredAttributes : IntentOfArgs[a] = Undefined

\* Every batch update issued carries at least one request.
NoEmptyBatchUpdate ==
    \A i \in DOMAIN calls :
        calls[i].api = "documents.batchUpdate" => Len(calls[i].requests) > 0

\* C12 as stated: a style invocation whose intent has no attribute, or only
\* unrecognised or null-valued attributes, fails and issues no batch update;
\* no batch update is empty.
C12_NullOrUnrecognisedIntentFails ==
    /\ NoEmptyBatchUpdate
    /\ (tool \in StyleTools /\ OnlyUnrecognisedOrNull) =>
          /\ NoBatchUpdateSent
          /\ pc = "done" => result.status = "error"

\* What buildTextStyleRequests puts in the payload for an attribute of the
\* intent that is null, and is no colour.
NullPayload(attr) ==
    CASE attr = "fontSize" -> Dimension(JNull)
      [] attr = "fontFamily" -> WeightedFontFamily(JNull)
      [] attr = "linkUrl" -> Link(JNull)
      [] OTHER -> JNull

\* C12, amended: a style invocation whose intent yields no operation fails
\* and issues no batch update; no batch update is empty.  A null-valued
\* attribute of a text style is present: when it is a colour the invocation
\* fails and issues no batch update; when it is not, every request sent
\* names its remote field in the mask and holds null for it, and the
\* invocation fails only on its range, on its text to find or at the remote.
C12_NoOperationIntentFails ==
    /\ NoEmptyBatchUpdate
    /\ (tool \in StyleTools /\ YieldsNoOperation) =>
          /\ NoBatchUpdateSent
          /\ pc = "done" => result.status = "error"
    /\ (tool \in {"applyTextStyle", "formatMatchingText"}) =>
          /\ (\E a \in ColorAttributes : args.textStyle[a] = JNull) =>
                /\ NoBatchUpdateSent
                /\ pc = "done" => result.status = "error"
          /\ \A a \in TextAttributes \ ColorAttributes :
                (args.textStyle[a] = JNull) =>
                   /\ \A request \in SentRequests :
                         /\ FieldOf(a) \in MaskNames(request.fields)
                         /\ request.style[FieldOf(a)] = NullPayload(a)
                   /\ (/\ pc = "done" /\ tool = "applyTextStyle"
                       /\ args.startIndex < args.endIndex
                       /\ \A c \in ColorAttributes :
                             args.textStyle[c] = Undefined
                                \/ hexToRgbColor(args.textStyle[c]).valid) =>
                         /\ BatchUpdateCount = 1
                         /\ result.status = "error" =>
                               result.error[1] = "Tool execution failed: remote error"

\* applyTextStyle with a null linkUrl next to bold: one request was sent,
\* with the link null under the mask name `link`.
C12_Witness ==
    /\ tool = "applyTextStyle" /\ pc = "done" /\ result.status = "ok"
    /\ args.textStyle.linkUrl = JNull /\ args.textStyle.bold = JBool(TRUE)
    /\ BatchUpdateCount = 1
    /\ \E request \in SentRequests :
          /\ request.fields = <<"bold", ",", "link">>
          /\ request.style["link"] = Link(JNull)
          /\ request.style["bold"] = JBool(TRUE)

\* The tools whose handler ends in executeBatchUpdate.
BatchUpdateTools ==
    {"applyTextStyle", "applyParagraphStyle", "formatMatchingText", "insertTable",
     "insertPageBreak", "insertText", "deleteContentRange"}

\* C17: an invocation of one of the seven tools issues at most one batch
\* update, also after the update has failed; an invocation that succeeds has
\* issued exactly one, which carries its one request.
C17_AtMostOneBatchUpdate ==
    tool \in BatchUpdateTools =>
        /\ BatchUpdateCount <= 1
        /\ (pc = "done" /\ result.status = "ok") =>
              /\ BatchUpdateCount = 1
              /\ Len(calls[Len(calls)].requests) = 1

\* insertTable, answered by a remote failure.
C17_Witness ==
    /\ tool = "insertTable" /\ pc = "done"
    /\ result.status = "error"
    /\ result.error[1] = "Tool execution failed: remote error"
    /\ BatchUpdateCount = 1

\* C18: after a failed batch update, the error the caller gets is the remote
\* error, as it is or behind the handler's prefix, together with the
\* documentId of the call.
C18_RemoteErrorWithDocumentId ==
    (pc = "done" /\ result.status = "error" /\ BatchUpdateCount > 0) =>
        result.error \in
            {Error(prefix \o RemoteError[1], <<args.documentId>>) :
                prefix \in {"", "Tool execution failed: "}}

\* C19: once connected, the process stays up whatever an invocation does; a
\* failure ends the handler with an error result, and when the response is
\* out the next call can be taken.
C19_FailuresDoNotEndTheProcess ==
    [][serverState = "connected" =>
          /\ serverState' = "connected"
          /\ result'.status = "error" => pc' = "done"
          /\ pc' = "idle" => CanReceive']_vars

\* After a failed invocation was answered, another one has succeeded.
C19_Witness ==
    /\ afterFailure
    /\ serverState = "connected"
    /\ pc = "done" /\ result.status = "ok"

\* C15: at most one handler is in progress at a time, and a handler that has
\* read the document and sent its batch update, which the remote service
\* has yet to take, finds the document as it read it: no other invocation's
\* update has been applied in between.
C15_OneInvocationAtATime ==
    /\ Cardinality(RunningSlots) <= 1
    /\ \A slot \in Slots :
          (/\ inflight[slot].tool \in ReadingTools
           /\ inflight[slot].pc = "awaitBatchUpdate"
           /\ inflight[slot].status = "pending") =>
              inflight[slot].readVersion = remoteDoc.version

\* C16: once the server is connected, no step of any handler, however the
\* handlers interleave, calls authorize or assigns a handle; authorize has
\* been called once.
C16_ClientsInitialisedOnce ==
    [][serverState = "connected" =>
          /\ authorizeCalls = 1 /\ authorizeCalls' = authorizeCalls
          /\ handleWrites' = handleWrites
          /\ <<authClient, googleDocs, googleDrive>>' = <<authClient, googleDocs, googleDrive>>
      ]_vars

\* Two handlers in progress side by side, after a third has ended.
C16_Witness ==
    /\ serverState = "connected"
    /\ Cardinality(RunningSlots) = 2
    /\ started = 3
    /\ authorizeCalls = 1 /\ handleWrites = 3
    /\ authClient = "client" /\ googleDocs = "docs" /\ googleDrive = "drive"

----------------------------------------------------------------------------
(* C21 .. C30 *)

\* The channels of a colour, each the numerator of a fraction over 255.
Channels(color) == {color.red, color.green, color.blue}

\* C21: a colour that hexToRgbColor returns has every component between
\* 0/255 and 255/255, and for six hexadecimal digits RRGGBB the components
\* are value(RR)/255, value(GG)/255 and value(BB)/255.
C21_ComponentsAreFractionsOf255 ==
    (hexOut.done /\ hexOut.out.valid) =>
        /\ Channels(hexOut.out) \subseteq 0..255
        /\ (Len(StripHash(hexIn[2])) = 6 /\ ~HasNonHexDigit(hexIn[2])) =>
              LET h == StripHash(hexIn[2])
              IN /\ hexOut.out.red = Channel(h[1], h[2])
                 /\ hexOut.out.green = Channel(h[3], h[4])
                 /\ hexOut.out.blue = Channel(h[5], h[6])

\* "#FF0000" is (1, 0, 0).
C21_Witness ==
    /\ hexOut.done
    /\ hexIn = JStr(<<"#", "F", "F", "0", "0", "0", "0">>)
    /\ hexOut.out = [valid |-> TRUE, red |-> 255, green |-> 0, blue |-> 0]

\* The batch updates of the invocation, in the order they were issued.
BatchUpdates == SelectSeq(calls, LAMBDA c : c.api = "documents.batchUpdate")

\* C23: once documents.get has answered appendToGoogleDoc with a document,
\* the handler has issued one batch update of one insert-text operation; its
\* index is the endIndex of the last body element minus 1, or 1 when there
\* is no content or no endIndex, and its text is the text to append, after
\* a newline exactly when the index is above 1.
C23_AppendInsertsOnceAtTheEnd ==
    (tool = "appendToGoogleDoc" /\ pc \in {"awaitBatchUpdate", "done"}
        /\ (result.status = "ok" \/ BatchUpdateCount > 0)) =>
        LET index == IF IsNum(docInfo) THEN docInfo[2] - 1 ELSE 1
            prefix == IF index > 1 THEN <<"\n">> ELSE <<>>
        IN /\ Len(BatchUpdates) = 1
           /\ Len(BatchUpdates[1].requests) = 1
           /\ BatchUpdates[1].requests[1].kind = "insertText"
           /\ BatchUpdates[1].requests[1].range = Location(index)
           /\ BatchUpdates[1].requests[1].style["text"] = JStr(prefix \o args.textToAppend[2])

\* Text appended to a document that ends at 3: at 2, after a newline.
C23_Witness ==
    /\ tool = "appendToGoogleDoc" /\ pc = "done" /\ result.status = "ok"
    /\ docInfo = JNum(3)
    /\ args.textToAppend = JStr(<<"a">>)
    /\ Len(BatchUpdates) = 1
    /\ BatchUpdates[1].requests[1].range = Location(2)
    /\ BatchUpdates[1].requests[1].style["text"] = JStr(<<"\n", "a">>)

FileTools == {"moveFile", "copyFile", "renameFile", "deleteFile", "listFolderContents"}
DriveApis == [i \in DOMAIN calls |-> calls[i].api]

\* C24 as stated: an invocation of moveFile, copyFile, renameFile, deleteFile
\* or listFolderContents that returned has issued exactly one remote call.
C24_ExactlyOneRemoteCall ==
    (tool \in FileTools /\ pc = "done" /\ result.status = "ok") => Len(calls) = 1

\* C24: copyFile, renameFile, deleteFile and listFolderContents issue one
\* remote call; moveFile issues files.get and, once that has answered, one
\* files.update.  No invocation issues more than one call that changes the
\* drive, and none issues a call again.
C24_OneChangingCallAfterAtMostOneRead ==
    (tool \in FileTools) =>
        LET whole == IF tool = "moveFile" THEN <<"files.get", "files.update">>
                     ELSE IF tool = "copyFile" THEN <<"files.copy">>
                     ELSE IF tool = "listFolderContents" THEN <<"files.list">>
                     ELSE <<"files.update">>
        IN /\ Len(calls) <= Len(whole)
           /\ DriveApis = SubSeq(whole, 1, Len(calls))
           /\ (pc = "awaitDrive") => Len(calls) >= 1
           /\ (pc = "done" /\ result.status = "ok") => DriveApis = whole

\* A file was moved: its parents were read, then it was updated.
C24_Witness ==
    /\ tool = "moveFile" /\ pc = "done" /\ result.status = "ok"
    /\ DriveApis = <<"files.get", "files.update">>

\* C25: a call of a tool that the README names is answered by a case of the
\* switch, never by the default's "Unknown tool", and the tool is in the
\* list that list-tools answers with; every tool in that list has a case.
C25_ReadmeToolsAreListedAndDispatched ==
    /\ ListedTools \subseteq DispatchedTools
    /\ (tool \in ReadmeTools /\ pc = "done") =>
          /\ tool \in ListedTools
          /\ result.error # ToolError(Error("Unknown tool: " \o tool, <<>>))

\* C26: for a paragraph style whose alignment and namedStyleType are absent
\* or from their enumerations, buildParagraphStyleRequests returns no
\* operation when neither is present; otherwise it returns one
\* update-paragraph-style operation whose payload holds the present
\* attributes and nothing else and whose mask names them, alignment before
\* namedStyleType.
C26_OneParagraphOperationOfThePresentAttributes ==
    (/\ bOut.done
     /\ bIntent.alignment \in Alignments \cup {Undefined}
     /\ bIntent.namedStyleType \in NamedStyleTypes \cup {Undefined}) =>
        LET a == bIntent.alignment # Undefined
            n == bIntent.namedStyleType # Undefined
            requests == bOut.out.requests
        IN /\ ~bOut.out.thrown
           /\ (~a /\ ~n) => requests = <<>>
           /\ (a \/ n) =>
                /\ Len(requests) = 1
                /\ requests[1].kind = "updateParagraphStyle"
                /\ requests[1].range \in ParagraphRanges
                /\ DOMAIN requests[1].style =
                       {x \in {"alignment", "namedStyleType"} : bIntent[x] # Undefined}
                /\ \A x \in DOMAIN requests[1].style : requests[1].style[x] = bIntent[x]
                /\ requests[1].fields =
                       IF a /\ n THEN <<"alignment", ",", "namedStyleType">>
                       ELSE IF a THEN <<"alignment">> ELSE <<"namedStyleType">>

\* A centred title: one operation with both attributes.
C26_Witness ==
    /\ bOut.done
    /\ bIntent = [alignment |-> S("CENTER"), namedStyleType |-> S("TITLE")]
    /\ Len(bOut.out.requests) = 1
    /\ bOut.out.requests[1].fields = <<"alignment", ",", "namedStyleType">>
    /\ bOut.out.requests[1].style["alignment"] = S("CENTER")

\* C27: the transport is connected only when initializeGoogleClient has
\* succeeded; when authorization fails at startup, as it does without a
\* usable saved token and without a terminal, the process has exited with
\* code 1 and the transport was not connected; with --setup the transport
\* is never connected.
C27_ConnectedOnlyWhenAuthorized ==
    /\ (serverState = "connected") =>
          /\ ~environment.setup
          /\ environment.savedToken \/ environment.interactive
          /\ authClient # "null" /\ googleDocs # "null" /\ googleDrive # "null"
          /\ authorizeCalls = 1
    /\ (serverState # "starting" /\ environment.setup) =>
          serverState \in {"setup done", "exited"}
    /\ (serverState \notin {"starting", "authorizing"} /\ ~environment.setup
            /\ ~environment.savedToken /\ ~environment.interactive) =>
          serverState = "exited"
    /\ (serverState = "authorizing") =>
          /\ authClient = "null" /\ googleDocs = "null" /\ googleDrive = "null"
          /\ pc = "idle" /\ tool = "none" /\ calls = <<>>
    /\ (serverState \in {"setup done", "exited"}) =>
          /\ authClient = "null" /\ googleDocs = "null" /\ googleDrive = "null"
          /\ pc = "idle" /\ tool = "none" /\ calls = <<>> /\ ~afterFailure

\* Started by a client, without a terminal and without a saved token: the
\* process has exited and nothing was connected.
C27_Witness ==
    /\ serverState = "exited"
    /\ environment = Environment(FALSE, FALSE, FALSE)
    /\ authorizeCalls = 1
    /\ googleDocs = "null"

InsertTools == {"insertText", "insertTable", "insertPageBreak"}

\* C28: every insert operation that insertText, insertTable or
\* insertPageBreak sends has a location index of 1 or more, and an
\* invocation with an index below 1 fails without a batch update.
C28_InsertIndexAtLeastOne ==
    (tool \in InsertTools) =>
        /\ \A request \in SentRequests : request.range.index >= 1
        /\ (args.index < 1) =>
              /\ NoBatchUpdateSent
              /\ (pc = "done") => result.status = "error"

\* C29: when authorize() fails inside initializeGoogleClient, the three
\* handles are null afterwards and the call fails, which at startup ends
\* the process; when initializeGoogleClient returns normally, googleDocs and
\* googleDrive are both set, each written once, in the one block that took
\* the one client that authorize() answered with.
C29_HandlesAllNullOrAllFromOneClient ==
    /\ (serverState = "exited" /\ ~environment.setup) =>
          /\ ~authorize(environment, FALSE)
          /\ authClient = "null" /\ googleDocs = "null" /\ googleDrive = "null"
          /\ authorizeCalls = 1 /\ handleWrites = 0
    /\ (serverState = "connected") =>
          /\ authClient = "client" /\ googleDocs = "docs" /\ googleDrive = "drive"
          /\ authorizeCalls = 1 /\ handleWrites = 3
    /\ (pc = "done" /\ tool \in DispatchedTools) =>
          result.error \notin
              {ToolError(Error("Google client initialization failed. Cannot start server tools.", <<>>)),
               ToolError(Error("Google Docs and Drive clients could not be initialized.", <<>>))}

\* On a terminal without a saved token, the code typed in was refused:
\* authorize() failed and nothing is left of the handles.
C29_Witness ==
    /\ serverState = "exited"
    /\ environment = Environment(FALSE, FALSE, TRUE)
    /\ authClient = "null" /\ googleDocs = "null" /\ googleDrive = "null"
    /\ authorizeCalls = 1

\* C30: createDocument issues the batch update of the initial content only
\* after drive.files.create has succeeded, and only for initial content
\* that is given; once the batch update has been issued there is no other
\* remote call, and whether it succeeds or fails the tool returns the
\* success text that names the document, with a note, and no tool error.
C30_InitialContentAfterCreateAndFailureIsNoted ==
    (tool = "createDocument") =>
        /\ (pc = "awaitCreate") => DriveApis = <<"files.create">>
        /\ (result.status = "error") => NoBatchUpdateSent
        /\ (~NoBatchUpdateSent) =>
              /\ Truthy(args.initialContent)
              /\ pc \in {"awaitInitialContent", "done"}
              /\ DriveApis = <<"files.create", "documents.batchUpdate">>
              /\ calls[2].requests =
                     <<Request("insertText", Location(1),
                               ("text" :> args.initialContent) @@ EmptyFn, <<>>)>>
              /\ (pc = "done") =>
                    /\ result.status = "ok" /\ result.error = NoError
                    /\ result.text \in
                         {CreatedText \o " Initial content added to document.",
                          CreatedText \o " Document created but failed to add initial content."}

\* The document was created, the batch update of its initial content
\* failed, and the tool returned the success text with the note.
C30_Witness ==
    /\ tool = "createDocument" /\ pc = "done"
    /\ DriveApis = <<"files.create", "documents.batchUpdate">>
    /\ result.status = "ok"
    /\ result.text = CreatedText \o " Document created but failed to add initial content."

====
